---- MODULE Spec2Model ----
(***************************************************************************)
(* Verification model of the incremental query core of jer-k/mono:         *)
(*   - AST normalisation (packages/zql/src/zql/ast/ast.ts)                  *)
(*   - the Join operator  (packages/zql/src/zql/ivm2/join.ts)               *)
(*                                                                         *)
(* JavaScript strings are TLA+ strings; where the code orders strings      *)
(* (compareUTF8) the string is looked up in Utf8, its code-point sequence. *)
(* `undefined` is the record Undefined for conditions and None for the     *)
(* optional members of an AST.                                             *)
(***************************************************************************)
EXTENDS Integers, Sequences, FiniteSets, TLC

VARIABLES
    \* ---- AST normalisation ----
    ast,        \* the AST handed to normalizeAST
    how,        \* how `ast` was obtained from the AST before it
    norm,       \* normalizeAST(ast)
    renorm,     \* normalizeAST(normalizeAST(ast))
    prevNorm,   \* normalizeAST of the AST before the last rewriting step
    \* ---- Join ----
    parentRows, \* the rows of the parent input
    childRows,  \* the rows of the child input
    storage,    \* Join.#storage: the keys that are set
    output,     \* whether Join.#output is set
    held,       \* the parent rows Join emitted in fetch mode and has not since
                \* processed in cleanup mode
    trip,       \* the subscribe round trip under way, when round trips are followed
    mark,       \* what a complete fetch found, when repeated fetches are followed
    last,       \* what the last operation on the Join did
    \* ---- Construction of a Join ----
    construction, \* the inputs handed to the constructor, and how far it got
    \* ---- LIKE patterns ----
    like,       \* a LIKE condition, the predicate built for it, and a string tested
    \* ---- Pipelines ----
    pipeline,   \* an AST, the pipeline built for it, and the rows pushed through it
    \* ---- Storage keys of the Join ----
    keys,       \* two tuples of values, and the storage keys made of them
    \* ---- Initial sync ----
    sync        \* one run of initialSync: where it is and what it has done

astVars == <<ast, how, norm, renorm, prevNorm>>

joinVars == <<parentRows, childRows, storage, output, held, trip, mark, last>>

\* What the operations of a Join, and what normalizeAST, leave alone.
besidesJoin == <<astVars, construction, like, pipeline, keys, sync>>
besidesAST == <<joinVars, construction, like, pipeline, keys, sync>>

vars == <<astVars, joinVars, construction, like, pipeline, keys, sync>>

(***************************************************************************)
(* Bounds of the model.                                                     *)
(***************************************************************************)
\* Largest number of nodes (simple conditions and conjunctions) of the WHERE trees
\* of any shape.
MaxNodes == 4
\* Largest nesting depth of the narrow WHERE trees (one nested conjunction a level).
MaxDepth == 3
\* Largest length of a select, aggregate or groupBy list.
MaxList == 2
\* Number of primary keys of the parent input, and of the child input.
MaxParents == 2
MaxChildren == 1
MaxPattern == 3
MaxInput == 2
\* Largest length of the aggregate list of an AST that is built into a pipeline.
MaxAggregates == 2
\* Number of primary keys of the rows of the source of a pipeline.
MaxRows == 3

(***************************************************************************)
(* Strings and their order.                                                 *)
(***************************************************************************)
\* The code points of every string the model orders.
Utf8 ==
    "a" :> <<97>>
    @@ "b" :> <<98>>
    @@ "x" :> <<120>>
    @@ "y" :> <<121>>
    @@ "v" :> <<118>>
    @@ "*" :> <<42>>
    @@ "=" :> <<61>>
    @@ "1" :> <<49>>
    @@ "2" :> <<50>>
    @@ "null" :> <<110, 117, 108, 108>>
    @@ "AND" :> <<65, 78, 68>>
    @@ "OR" :> <<79, 82>>
    @@ "count" :> <<99, 111, 117, 110, 116>>
    @@ "sum" :> <<115, 117, 109>>
    @@ "i1" :> <<105, 49>>
    @@ "i2" :> <<105, 50>>
    @@ "i3" :> <<105, 51>>
    @@ "c1" :> <<99, 49>>
    @@ "c2" :> <<99, 50>>
    @@ "c3" :> <<99, 51>>
    @@ "u1" :> <<117, 49>>
    @@ "u10" :> <<117, 49, 48>>
    @@ "pKeySet" :> <<112, 75, 101, 121, 83, 101, 116>>
    @@ "10" :> <<49, 48>>
    @@ "NaN" :> <<78, 97, 78>>
    @@ "true" :> <<116, 114, 117, 101>>
    @@ "u1\",\"i1" :> <<117, 49, 34, 44, 34, 105, 49>>
    @@ "u1\\" :> <<117, 49, 92>>

RECURSIVE compareCodePoints(_, _)
compareCodePoints(x, y) ==
    IF x = <<>> /\ y = <<>> THEN 0
    ELSE IF x = <<>> THEN -1
    ELSE IF y = <<>> THEN 1
    ELSE IF Head(x) < Head(y) THEN -1
    ELSE IF Head(x) > Head(y) THEN 1
    ELSE compareCodePoints(Tail(x), Tail(y))

\* compareUTF8(a, b): negative, zero or positive as a sorts before, with or after b
\* in the order of the strings' UTF-8 bytes, which is the order of their code points.
compareUTF8(a, b) == compareCodePoints(Utf8[a], Utf8[b])

\* Array.prototype.sort(compare): a stable sort. order[i][j] is compare(s[i], s[j]):
\* the element at index i goes after every element that compares smaller and
\* after every equal element before it.
StableSort(s, order) ==
    LET n == Len(s)
        pos(i) == 1 + Cardinality({j \in 1..n :
                        \/ order[j][i] < 0
                        \/ (order[j][i] = 0 /\ j < i)})
    IN  [k \in 1..n |-> s[CHOOSE i \in 1..n : pos(i) = k]]

(***************************************************************************)
(* Values, conditions and ASTs.                                             *)
(***************************************************************************)
\* `undefined` in the place of a Condition.
Undefined == [type |-> "undefined"]

\* An optional member of an AST that is absent (undefined), or present.
None == [present |-> FALSE]
Some(v) == [present |-> TRUE, v |-> v]

\* A Primitive: its JavaScript type and its literal text.
Num(text) == [t |-> "number", text |-> text]
Str(text) == [t |-> "string", text |-> text]
Null == [t |-> "null", text |-> "null"]

\* String(value): the type is dropped, the text remains.
String(p) ==
    CASE p.t = "number" -> p.text
      [] p.t = "string" -> p.text
      [] p.t = "boolean" -> p.text
      [] p.t = "null" -> "null"

Simple(field, op, p) ==
    [type |-> "simple", op |-> op, field |-> field,
     value |-> [type |-> "literal", value |-> p]]

Conjunction(op, conditions) ==
    [type |-> "conjunction", op |-> op, conditions |-> conditions]

RECURSIVE FlatSeq(_)
\* Array.prototype.flat on a sequence of sequences.
FlatSeq(ss) == IF ss = <<>> THEN <<>> ELSE Head(ss) \o FlatSeq(Tail(ss))

\* defined(arr): the elements that are not undefined, in order.
defined(arr) == SelectSeq(arr, LAMBDA c : c # Undefined)

(***************************************************************************)
(* normalizeAST and its helpers.                                            *)
(***************************************************************************)
RECURSIVE flattened(_)
\* flattened with the switch falling through to `case 1`: a conjunction that keeps
\* two or more conditions is replaced by its first condition.
flattenedFirstOnly(cond) ==
    IF cond = Undefined THEN Undefined
    ELSE IF cond.type = "simple" THEN cond
    ELSE
      LET mapped == [i \in 1..Len(cond.conditions) |->
                LET c == cond.conditions[i]
                IN  IF c.op = cond.op
                    THEN [j \in 1..Len(c.conditions) |-> flattened(c.conditions[j])]
                    ELSE <<flattened(c)>>]
          conditions == defined(FlatSeq(mapped))
      IN  CASE Len(conditions) = 0 -> Undefined
            [] OTHER -> conditions[1]

\* flattened without `case 1` of the switch: a conjunction that keeps a single
\* condition stays a conjunction.
flattenedKeepingSingletons(cond) ==
    IF cond = Undefined THEN Undefined
    ELSE IF cond.type = "simple" THEN cond
    ELSE
      LET mapped == [i \in 1..Len(cond.conditions) |->
                LET c == cond.conditions[i]
                IN  IF c.op = cond.op
                    THEN [j \in 1..Len(c.conditions) |-> flattened(c.conditions[j])]
                    ELSE <<flattened(c)>>]
          conditions == defined(FlatSeq(mapped))
      IN  CASE Len(conditions) = 0 -> Undefined
            [] OTHER -> [type |-> cond.type, op |-> cond.op, conditions |-> conditions]

flattened(cond) ==
    IF cond = Undefined THEN Undefined
    ELSE IF cond.type = "simple" THEN cond
    ELSE
      LET mapped == [i \in 1..Len(cond.conditions) |->
                LET c == cond.conditions[i]
                IN  IF c.op = cond.op
                    THEN [j \in 1..Len(c.conditions) |-> flattened(c.conditions[j])]
                    ELSE <<flattened(c)>>]
          conditions == defined(FlatSeq(mapped))
      IN  CASE Len(conditions) = 0 -> Undefined
            [] Len(conditions) = 1 -> conditions[1]
            [] OTHER -> [type |-> cond.type, op |-> cond.op, conditions |-> conditions]

RECURSIVE cmp(_, _)
RECURSIVE cmpMembers(_, _, _)
\* The member-wise loop of cmp from index l on, then "prefixes first".
cmpMembers(a, b, l) ==
    IF l <= Len(a.conditions) /\ l <= Len(b.conditions)
    THEN LET val == cmp(a.conditions[l], b.conditions[l])
         IN  IF val # 0 THEN val ELSE cmpMembers(a, b, l + 1)
    ELSE Len(a.conditions) - Len(b.conditions)

cmp(a, b) ==
    IF a.type = "simple"
    THEN IF b.type # "simple" THEN -1
         ELSE LET byField == compareUTF8(a.field, b.field)
                  byOp == compareUTF8(a.op, b.op)
              IN  IF byField # 0 THEN byField
                  ELSE IF byOp # 0 THEN byOp
                  ELSE compareUTF8(String(a.value.value), String(b.value.value))
    ELSE IF b.type = "simple" THEN 1
    ELSE LET val == compareUTF8(a.op, b.op)
         IN  IF val # 0 THEN val ELSE cmpMembers(a, b, 1)

\* sorted that sorts the conditions of the outermost conjunction only.
sortedOutermostOnly(cond) ==
    IF cond.type = "simple" THEN cond
    ELSE [type |-> cond.type, op |-> cond.op,
          conditions |->
              LET cs == cond.conditions
              IN  StableSort(cs, [i \in DOMAIN cs |-> [j \in DOMAIN cs |->
                                    cmp(cs[i], cs[j])]])]

RECURSIVE sorted(_)
sorted(cond) ==
    IF cond.type = "simple" THEN cond
    ELSE [type |-> cond.type, op |-> cond.op,
          conditions |->
              LET cs == [i \in 1..Len(cond.conditions) |-> sorted(cond.conditions[i])]
              IN  StableSort(cs, [i \in DOMAIN cs |-> [j \in DOMAIN cs |->
                                    cmp(cs[i], cs[j])]])]

\* The comparator of ast.select: by selector alone.
cmpSelect(a, b) == compareUTF8(a[1], b[1])

\* The comparator of ast.aggregate: by aggregate, then by field ?? '*'.
cmpAggregate(a, b) ==
    LET byAggregate == compareUTF8(a.aggregate, b.aggregate)
        fieldOf(g) == IF g.field = None THEN "*" ELSE g.field.v
    IN  IF byAggregate # 0 THEN byAggregate
        ELSE compareUTF8(fieldOf(a), fieldOf(b))

\* A normalizeAST that sorts the fields of orderBy like those of groupBy.
normalizeASTSortingOrderBy(a) ==
    LET where == flattened(a.where)
        ordered(list, cmpOf(_, _)) ==
            StableSort(list, [i \in DOMAIN list |-> [j \in DOMAIN list |->
                                 cmpOf(list[i], list[j])]])
    IN  [table |-> a.table,
         alias |-> a.alias,
         select |-> IF a.select.present THEN Some(ordered(a.select.v, cmpSelect))
                    ELSE None,
         aggregate |-> IF a.aggregate.present
                       THEN Some(ordered(a.aggregate.v, cmpAggregate)) ELSE None,
         where |-> IF where # Undefined THEN sorted(where) ELSE Undefined,
         groupBy |-> IF a.groupBy.present THEN Some(ordered(a.groupBy.v, compareUTF8))
                     ELSE None,
         orderBy |-> <<ordered(a.orderBy[1], compareUTF8), a.orderBy[2]>>,
         limit |-> a.limit]

normalizeAST(a) ==
    LET where == flattened(a.where)
    IN  [table |-> a.table,
         alias |-> a.alias,
         select |-> IF a.select.present
                    THEN Some(StableSort(a.select.v,
                              [i \in DOMAIN a.select.v |-> [j \in DOMAIN a.select.v |->
                                  cmpSelect(a.select.v[i], a.select.v[j])]])) ELSE None,
         aggregate |-> IF a.aggregate.present
                       THEN Some(StableSort(a.aggregate.v,
                              [i \in DOMAIN a.aggregate.v |-> [j \in DOMAIN a.aggregate.v |->
                                  cmpAggregate(a.aggregate.v[i], a.aggregate.v[j])]])) ELSE None,
         where |-> IF where # Undefined THEN sorted(where) ELSE Undefined,
         groupBy |-> IF a.groupBy.present
                     THEN Some(StableSort(a.groupBy.v,
                              [i \in DOMAIN a.groupBy.v |-> [j \in DOMAIN a.groupBy.v |->
                                  compareUTF8(a.groupBy.v[i], a.groupBy.v[j])]])) ELSE None,
         orderBy |-> a.orderBy,
         limit |-> a.limit]

(***************************************************************************)
(* The ASTs normalizeAST is applied to.                                     *)
(***************************************************************************)
\* The simple conditions of the WHERE trees: two compare the same field with the
\* same operator and values of different types with the same string form.
Leaves ==
    {Simple("a", "=", Num("1")), Simple("a", "=", Str("1")), Simple("b", "=", Num("2"))}

Ops == {"AND", "OR"}

RECURSIVE TreesOfSize(_)
RECURSIVE ForestsOfSize(_)
\* The sequences of conditions with n nodes in all.
ForestsOfSize(n) ==
    IF n = 0 THEN {<<>>}
    ELSE UNION {{<<t>> \o f : t \in TreesOfSize(m), f \in ForestsOfSize(n - m)} :
                m \in 1..n}

\* The conditions with exactly n nodes.
TreesOfSize(n) ==
    (IF n = 1 THEN Leaves ELSE {})
    \cup {Conjunction(op, f) : op \in Ops, f \in ForestsOfSize(n - 1)}

RECURSIVE Chains(_)
\* The narrow trees of nesting depth d: a conjunction of two simple conditions at
\* the bottom, and above it conjunctions of the conjunction below, alone or
\* followed by the simple condition b = 2.
Chains(d) ==
    IF d = 1 THEN {Conjunction(op, <<l, r>>) : op \in Ops, l \in Leaves, r \in Leaves}
    ELSE LET below == Chains(d - 1)
         IN  {Conjunction(op, <<c>>) : op \in Ops, c \in below}
             \cup {Conjunction(op, <<c, Simple("b", "=", Num("2"))>>) :
                    op \in Ops, c \in below}

\* WHERE (a = 1 AND (b = 2 AND TRUE)): the innermost conjunction is empty.
EmptyFilterExample ==
    Conjunction("AND", <<Simple("a", "=", Num("1")),
                         Conjunction("AND", <<Simple("b", "=", Num("2")),
                                              Conjunction("AND", <<>>)>>)>>)

\* WHERE a = 1 AND b = 2.
PlainFilterExample ==
    Conjunction("AND", <<Simple("a", "=", Num("1")), Simple("b", "=", Num("2"))>>)

\* The WHERE trees: absent, every tree of at most MaxNodes nodes, the narrow
\* trees of depth at most MaxDepth, and the filter with an empty conjunction.
Trees ==
    {Undefined, EmptyFilterExample}
    \cup UNION {TreesOfSize(n) : n \in 1..MaxNodes}
    \cup UNION {Chains(d) : d \in 1..MaxDepth}

RECURSIVE Size(_)
RECURSIVE SizeAll(_)
SizeAll(cs) == IF cs = <<>> THEN 0 ELSE Size(Head(cs)) + SizeAll(Tail(cs))
Size(c) ==
    IF c = Undefined THEN 0
    ELSE IF c.type = "simple" THEN 1
    ELSE 1 + SizeAll(c.conditions)

RECURSIVE SeqsUpTo(_, _)
\* The sequences over S of length at most n.
SeqsUpTo(S, n) ==
    IF n = 0 THEN {<<>>}
    ELSE LET shorter == SeqsUpTo(S, n - 1)
         IN  shorter \cup {Append(q, e) : q \in {r \in shorter : Len(r) = n - 1}, e \in S}

Selections == {<<"x", "x">>, <<"x", "y">>, <<"y", "y">>}

Aggregations ==
    {[aggregate |-> "count", field |-> None, alias |-> "x"],
     [aggregate |-> "count", field |-> None, alias |-> "y"],
     [aggregate |-> "sum", field |-> Some("v"), alias |-> "x"]}

GroupColumns == {"a", "b"}

OptionalLists(S) == {None} \cup {Some(q) : q \in SeqsUpTo(S, MaxList)}

MakeAST(where, select, aggregate, groupBy) ==
    [table |-> "issue", alias |-> None, select |-> select, aggregate |-> aggregate,
     where |-> where, groupBy |-> groupBy,
     orderBy |-> <<<<"b", "a">>, "asc">>, limit |-> None]

(***************************************************************************)
(* Rewritings of an AST that keep its meaning.                              *)
(***************************************************************************)
RECURSIVE Regroupings(_)
\* One more nested conjunction: somewhere in the tree a run of the conditions of
\* a conjunction is grouped into a conjunction with the same operator.
Regroupings(t) ==
    IF t = Undefined \/ t.type = "simple" THEN {}
    ELSE LET cs == t.conditions
             n == Len(cs)
         IN  {Conjunction(t.op, SubSeq(cs, 1, p[1] - 1)
                                 \o <<Conjunction(t.op, SubSeq(cs, p[1], p[2]))>>
                                 \o SubSeq(cs, p[2] + 1, n)) :
                p \in {q \in (1..n) \X (1..n) : q[1] <= q[2]}}
             \cup UNION {{Conjunction(t.op, [cs EXCEPT ![k] = c]) :
                            c \in Regroupings(cs[k])} : k \in 1..n}

RECURSIVE Commutings(_)
\* Two neighbouring conditions of one conjunction, somewhere in the tree, swapped.
Commutings(t) ==
    IF t = Undefined \/ t.type = "simple" THEN {}
    ELSE LET cs == t.conditions
             n == Len(cs)
         IN  {Conjunction(t.op, [cs EXCEPT ![i] = cs[i + 1], ![i + 1] = cs[i]]) :
                i \in 1..(n - 1)}
             \cup UNION {{Conjunction(t.op, [cs EXCEPT ![k] = c]) :
                            c \in Commutings(cs[k])} : k \in 1..n}

RECURSIVE Duplications(_)
\* One condition of a conjunction, somewhere in the tree, repeated next to itself.
Duplications(t) ==
    IF t = Undefined \/ t.type = "simple" THEN {}
    ELSE LET cs == t.conditions
             n == Len(cs)
         IN  {Conjunction(t.op, SubSeq(cs, 1, i) \o SubSeq(cs, i, n)) : i \in 1..n}
             \cup UNION {{Conjunction(t.op, [cs EXCEPT ![k] = c]) :
                            c \in Duplications(cs[k])} : k \in 1..n}

\* Two neighbouring entries of an optional list swapped.
Swaps(list) ==
    IF ~list.present THEN {}
    ELSE {Some([list.v EXCEPT ![i] = list.v[i + 1], ![i + 1] = list.v[i]]) :
            i \in 1..(Len(list.v) - 1)}

(***************************************************************************)
(* Specification of normalisation: an AST is registered and normalised, and *)
(* then equivalent forms of it are.                                         *)
(***************************************************************************)
\* Round trips are followed and none is under way; round trips are not followed.
NoTrip == [phase |-> "none", req |-> None, partial |-> FALSE, pushed |-> FALSE]
NotFollowed == [phase |-> "off", req |-> None, partial |-> FALSE, pushed |-> FALSE]

\* Repeated fetches are not followed; they are followed and no fetch is marked.
Unmarked ==
    [phase |-> "off", req |-> None, nodes |-> <<>>, parentRows |-> {}, childRows |-> {},
     storage |-> {}, pushed |-> FALSE, nodesAgain |-> <<>>, storageAgain |-> {}]
NoMark == [Unmarked EXCEPT !.phase = "none"]

\* A Join constructed over two different inputs: both fields assigned, and
\* setOutput called on the parent and then on the child.
Built ==
    [phase |-> "built", parent |-> "parent", child |-> "child", assigned |-> TRUE,
     wired |-> <<"parent", "child">>]

\* No LIKE condition is under test.
NoLike == [phase |-> "none"]

\* No pipeline is being built.
NoPipeline == [phase |-> "none"]

\* No storage key is being made, and initialSync is not being run.
NoKeys == [phase |-> "none"]
NoSync == [phase |-> "none"]

\* What `last` holds before any operation on the Join.
Nothing ==
    [op |-> "none", req |-> None, complete |-> TRUE, change |-> None,
     events |-> <<>>, emitted |-> <<>>, threw |-> FALSE]

\* The Join while only normalizeAST is exercised: no rows, nothing stored.
JoinUnused ==
    /\ parentRows = {}
    /\ childRows = {}
    /\ storage = {}
    /\ output = FALSE
    /\ held = {}
    /\ trip = NotFollowed
    /\ mark = Unmarked
    /\ last = Nothing
    /\ construction = Built
    /\ like = NoLike
    /\ pipeline = NoPipeline
    /\ keys = NoKeys
    /\ sync = NoSync

\* `next` is normalised, and its normal form is normalised again.
Register(next, step) ==
    /\ ast' = next
    /\ how' = step
    /\ norm' = normalizeAST(next)
    /\ renorm' = normalizeAST(norm')
    /\ prevNorm' = norm
    /\ UNCHANGED besidesAST

InitAST ==
    /\ \/ \E where \in Trees : ast = MakeAST(where, None, None, None)
       \/ \E select \in OptionalLists(Selections),
             groupBy \in OptionalLists(GroupColumns) :
               ast = MakeAST(Undefined, select, None, groupBy)
       \/ \E aggregate \in OptionalLists(Aggregations),
             groupBy \in OptionalLists(GroupColumns) :
               ast = MakeAST(Undefined, None, aggregate, groupBy)
       \/ \E where \in {Undefined, EmptyFilterExample},
             table \in {"issue", "comment"},
             alias \in {None, Some("i")},
             limit \in {None, Some(10)},
             orderBy \in {<<<<"b", "a">>, "desc">>, <<<<"id">>, "asc">>} :
               ast = [MakeAST(where, None, None, Some(<<"b", "a">>)) EXCEPT
                         !.table = table, !.alias = alias, !.limit = limit,
                         !.orderBy = orderBy]
    /\ how = "init"
    /\ norm = normalizeAST(ast)
    /\ renorm = normalizeAST(norm)
    /\ prevNorm = norm
    /\ JoinUnused

Regroup ==
    /\ how = "init"
    /\ \E where \in Regroupings(ast.where) :
        Register([ast EXCEPT !.where = where], "assoc")

Commute ==
    /\ how = "init"
    /\ \E where \in Commutings(ast.where) :
        Register([ast EXCEPT !.where = where], "comm")

Duplicate ==
    /\ how = "init"
    /\ \E where \in Duplications(ast.where) :
        Register([ast EXCEPT !.where = where], "dup")

ReorderSelect ==
    /\ how = "init"
    /\ \E select \in Swaps(ast.select) : Register([ast EXCEPT !.select = select], "order")

ReorderAggregate ==
    /\ how = "init"
    /\ \E aggregate \in Swaps(ast.aggregate) :
        Register([ast EXCEPT !.aggregate = aggregate], "order")

ReorderGroupBy ==
    /\ how = "init"
    /\ \E groupBy \in Swaps(ast.groupBy) :
        Register([ast EXCEPT !.groupBy = groupBy], "order")

NextAST ==
    \/ Regroup
    \/ Commute
    \/ Duplicate
    \/ ReorderSelect
    \/ ReorderAggregate
    \/ ReorderGroupBy

SpecAST == InitAST /\ [][NextAST]_vars

(***************************************************************************)
(* Properties of normalizeAST.                                              *)
(***************************************************************************)
RECURSIVE Occurrences(_, _)
RECURSIVE OccurrencesAll(_, _)
OccurrencesAll(cs, leaf) ==
    IF cs = <<>> THEN 0 ELSE Occurrences(Head(cs), leaf) + OccurrencesAll(Tail(cs), leaf)
\* How many times the simple condition `leaf` occurs in the condition c.
Occurrences(c, leaf) ==
    IF c = Undefined THEN 0
    ELSE IF c.type = "simple" THEN (IF c = leaf THEN 1 ELSE 0)
    ELSE OccurrencesAll(c.conditions, leaf)

\* C1: normalizeAST is idempotent: normalising a normalised AST changes nothing.
C1_Idempotent == renorm = norm

\* C2: two ASTs that differ only in how the conditions under one operator are
\* grouped into nested conjunctions, or in the order of the conditions of a
\* conjunction, have the same normal form.
C2_AssocCommSameNormalForm == how \in {"assoc", "comm"} => norm = prevNorm

C10_OrderSameNormalForm == how = "order" => norm = prevNorm

RECURSIVE Nested(_)
\* Some conjunction in c has a conjunction with its own operator as a condition.
Nested(c) ==
    /\ c # Undefined
    /\ c.type = "conjunction"
    /\ \E i \in DOMAIN c.conditions :
          \/ (c.conditions[i].type = "conjunction" /\ c.conditions[i].op = c.op)
          \/ Nested(c.conditions[i])

\* C11: in the WHERE tree of a normalized AST no conjunction has a conjunction
\* with the same operator as a direct condition, whatever the depth of the input.
C11_SameOperatorFlattened == ~Nested(norm.where)

RECURSIVE Short(_)
\* Some conjunction in c has fewer than two conditions.
Short(c) ==
    /\ c # Undefined
    /\ c.type = "conjunction"
    /\ \/ Len(c.conditions) < 2
       \/ \E i \in DOMAIN c.conditions : Short(c.conditions[i])

\* C12: every conjunction of a normalized AST has at least two conditions; where
\* is undefined when the input holds no simple condition; and the filter
\* AND[a=1, AND[b=2, AND[]]] has the normal form of AND[a=1, b=2].
C12_AtLeastTwoConditions ==
    /\ ~Short(norm.where)
    /\ (\A leaf \in Leaves : Occurrences(ast.where, leaf) = 0) => norm.where = Undefined
    /\ ast.where = EmptyFilterExample =>
          norm = normalizeAST([ast EXCEPT !.where = PlainFilterExample])

\* C12 witness: the filter with the empty conjunction was normalised, to a
\* conjunction of two simple conditions.
C12_Witness ==
    /\ ast.where = EmptyFilterExample
    /\ norm.where = PlainFilterExample

RECURSIVE NotAfter(_, _)
RECURSIVE MembersNotAfter(_, _)
\* The list x of conditions does not come after the list y: member by member,
\* and a list before the lists it is a proper prefix of.
MembersNotAfter(x, y) ==
    IF x = <<>> THEN TRUE
    ELSE IF y = <<>> THEN FALSE
    ELSE IF ~NotAfter(Head(y), Head(x)) THEN TRUE
    ELSE IF ~NotAfter(Head(x), Head(y)) THEN FALSE
    ELSE MembersNotAfter(Tail(x), Tail(y))

\* The condition a does not come after the condition b in the canonical order:
\* simple conditions before conjunctions, simple conditions by field, then op,
\* then the string form of the value, conjunctions by op, then by their members.
NotAfter(a, b) ==
    CASE a.type = "simple" /\ b.type = "simple" ->
           LET byField == compareUTF8(a.field, b.field)
               byOp == compareUTF8(a.op, b.op)
               byValue == compareUTF8(String(a.value.value), String(b.value.value))
           IN  \/ byField < 0
               \/ byField = 0 /\ byOp < 0
               \/ byField = 0 /\ byOp = 0 /\ byValue <= 0
      [] a.type = "simple" /\ b.type # "simple" -> TRUE
      [] a.type # "simple" /\ b.type = "simple" -> FALSE
      [] OTHER ->
           LET byOp == compareUTF8(a.op, b.op)
           IN  byOp < 0 \/ (byOp = 0 /\ MembersNotAfter(a.conditions, b.conditions))

RECURSIVE InCanonicalOrder(_)
\* The conditions of every conjunction in c are in the canonical order.
InCanonicalOrder(c) ==
    \/ c = Undefined
    \/ c.type = "simple"
    \/ /\ c.type = "conjunction"
       /\ \A i \in 1..(Len(c.conditions) - 1) :
             NotAfter(c.conditions[i], c.conditions[i + 1])
       /\ \A i \in DOMAIN c.conditions : InCanonicalOrder(c.conditions[i])

\* C33: in the WHERE tree of every normalized AST the conditions of each
\* conjunction are in the canonical order: the simple conditions before the
\* conjunctions, the simple conditions in non-decreasing (field, op, string of
\* the value), the conjunctions by op and then member by member, a prefix first.
C33_ConditionsInCanonicalOrder ==
    /\ InCanonicalOrder(norm.where)
    /\ InCanonicalOrder(renorm.where)

C33_Witness ==
    /\ ast.where # Undefined
    /\ ast.where.type = "conjunction"
    /\ Len(ast.where.conditions) >= 2
    /\ ast.where.conditions[1].type = "conjunction"
    /\ norm.where # Undefined
    /\ norm.where.type = "conjunction"
    /\ norm.where.conditions[1].type = "simple"
    /\ norm.where.conditions[Len(norm.where.conditions)].type = "conjunction"
    /\ norm.where.conditions[Len(norm.where.conditions)] # ast.where.conditions[1]

(***************************************************************************)
(* The Join operator over a parent input and a child input.                 *)
(***************************************************************************)
\* The Join's parameters: the parent schema's primary key, and the columns joined.
primaryKey == <<"id">>
parentKey == "uid"
childKey == "ownerID"
relationshipName == "owned"

\* normalizeUndefined(v): undefined becomes null.
normalizeUndefined(v) == IF v = [t |-> "undefined", text |-> "undefined"] THEN Null ELSE v

RECURSIVE JsonEscape(_)
\* The code points of a string as JSON.stringify writes them between the quotes:
\* a quote and a backslash after a backslash, every other one as it is.
JsonEscape(t) ==
    IF t = <<>> THEN <<>>
    ELSE (IF Head(t) \in {34, 92} THEN <<92, Head(t)>> ELSE <<Head(t)>>)
             \o JsonEscape(Tail(t))

\* JSON.stringify of a value of type t whose text has the code points given:
\* a string is escaped and stands between quotes, any other value is its text.
JsonQuoted(t, codePoints) ==
    IF t = "string" THEN <<34>> \o JsonEscape(codePoints) \o <<34>> ELSE codePoints

\* JSON.stringify of a NormalizedValue, as code points: a number that is not
\* finite is written as null.
Json(p) ==
    JsonQuoted(p.t, Utf8[IF p.t = "number" /\ p.text \in {"NaN", "Infinity", "-Infinity"}
                         THEN "null" ELSE p.text])

RECURSIVE JsonElements(_)
\* The elements of a JSON array, separated by commas.
JsonElements(values) ==
    IF values = <<>> THEN <<>>
    ELSE IF Len(values) = 1 THEN Json(values[1])
    ELSE Json(Head(values)) \o <<44>> \o JsonElements(Tail(values))

createPrimaryKeySetStorageKey(values) ==
    LET json == <<91>> \o JsonElements(<<Str("pKeySet")>> \o values) \o <<93>>
    IN  SubSeq(json, 2, Len(json) - 1) \o <<44>>

createPrimaryKeySetStorageKeyPrefix(value) == createPrimaryKeySetStorageKey(<<value>>)

\* storage.scan({prefix}): the entries whose key starts with prefix.
scan(store, prefix) ==
    {key \in store : Len(key) >= Len(prefix) /\ SubSeq(key, 1, Len(prefix)) = prefix}

\* The values joined on, and the rows of the two inputs: at most one row for
\* each primary key.
JoinValues == {Str("u1"), Str("u10")}
ParentIds == {Str(<<"i1", "i2", "i3">>[i]) : i \in 1..MaxParents}
ChildIds == {Str(<<"c1", "c2", "c3">>[i]) : i \in 1..MaxChildren}
ParentRow(id, v) == [id |-> id, uid |-> v]
ChildRow(id, v) == [id |-> id, ownerID |-> v]
AllParentRows == {ParentRow(id, v) : id \in ParentIds, v \in JoinValues}
AllChildRows == {ChildRow(id, v) : id \in ChildIds, v \in JoinValues}
RowSets(rows) == {S \in SUBSET rows : \A r1 \in S, r2 \in S : r1.id = r2.id => r1 = r2}

\* A FetchRequest, with or without a constraint.
Unconstrained == [constraint |-> None]
Constrained(key, value) == [constraint |-> Some([key |-> key, value |-> value])]
Requests == {Unconstrained, Constrained(parentKey, Str("u1")), Constrained("id", Str("i1"))}

\* No relationships: the nodes of a Source carry none.
NoRelationships == [name \in {} |-> <<>>]
SourceNode(row) == [row |-> row, relationships |-> NoRelationships]

RECURSIVE InIdOrder(_)
\* The rows of a set in the order of the primary index.
InIdOrder(rows) ==
    IF rows = {} THEN <<>>
    ELSE LET first == CHOOSE r \in rows :
                        \A q \in rows : compareUTF8(r.id.text, q.id.text) <= 0
         IN  <<first>> \o InIdOrder(rows \ {first})

\* Source.fetch(req) and Source.cleanup(req): the rows that meet the constraint,
\* as nodes, in the order of the primary index.
SourceFetch(rows, req) ==
    LET matching == {r \in rows :
                        \/ ~req.constraint.present
                        \/ r[req.constraint.v.key] = req.constraint.v.value}
        ordered == InIdOrder(matching)
    IN  [i \in 1..Len(ordered) |-> SourceNode(ordered[i])]

\* #processParentNode deciding on the first entry of the scan, not the second.
processParentNodeFirst(parentNode, mode, store) ==
    LET parentKeyValue == normalizeUndefined(parentNode.row[parentKey])
        parentPrimaryKey ==
            [i \in 1..Len(primaryKey) |-> normalizeUndefined(parentNode.row[primaryKey[i]])]
        storageKey == createPrimaryKeySetStorageKey(<<parentKeyValue>> \o parentPrimaryKey)
        first ==
            Cardinality(scan(store, createPrimaryKeySetStorageKeyPrefix(parentKeyValue))) >= 1
        method == IF mode = "cleanup"
                  THEN (IF first THEN "fetch" ELSE "cleanup")
                  ELSE mode
        request == Constrained(childKey, parentKeyValue)
        childStream == SourceFetch(childRows, request)
    IN  [storage |-> IF mode = "fetch" THEN store \cup {storageKey}
                     ELSE store \ {storageKey},
         method |-> method,
         request |-> request,
         node |-> [row |-> parentNode.row,
                   relationships |->
                       (relationshipName :> childStream) @@ parentNode.relationships]]

\* #processParentNode pulling the child without the constraint.
processParentNodeUnconstrained(parentNode, mode, store) ==
    LET parentKeyValue == normalizeUndefined(parentNode.row[parentKey])
        parentPrimaryKey ==
            [i \in 1..Len(primaryKey) |-> normalizeUndefined(parentNode.row[primaryKey[i]])]
        storageKey == createPrimaryKeySetStorageKey(<<parentKeyValue>> \o parentPrimaryKey)
        second ==
            Cardinality(scan(store, createPrimaryKeySetStorageKeyPrefix(parentKeyValue))) >= 2
        method == IF mode = "cleanup"
                  THEN (IF second THEN "fetch" ELSE "cleanup")
                  ELSE mode
        request == Unconstrained
        childStream == SourceFetch(childRows, request)
    IN  [storage |-> IF mode = "fetch" THEN store \cup {storageKey}
                     ELSE store \ {storageKey},
         method |-> method,
         request |-> request,
         node |-> [row |-> parentNode.row,
                   relationships |->
                       (relationshipName :> childStream) @@ parentNode.relationships]]

\* #processParentNode with a storage key that leaves out the primary key.
processParentNodeKeyedByValue(parentNode, mode, store) ==
    LET parentKeyValue == normalizeUndefined(parentNode.row[parentKey])
        parentPrimaryKey ==
            [i \in 1..Len(primaryKey) |-> normalizeUndefined(parentNode.row[primaryKey[i]])]
        storageKey == createPrimaryKeySetStorageKey(<<parentKeyValue>>)
        second ==
            Cardinality(scan(store, createPrimaryKeySetStorageKeyPrefix(parentKeyValue))) >= 2
        method == IF mode = "cleanup"
                  THEN (IF second THEN "fetch" ELSE "cleanup")
                  ELSE mode
        request == Constrained(childKey, parentKeyValue)
        childStream == SourceFetch(childRows, request)
    IN  [storage |-> IF mode = "fetch" THEN store \cup {storageKey}
                     ELSE store \ {storageKey},
         method |-> method,
         request |-> request,
         node |-> [row |-> parentNode.row,
                   relationships |->
                       (relationshipName :> childStream) @@ parentNode.relationships]]

\* Join.#processParentNode(parentNode, mode) on the storage `store`: the storage
\* after it, the method the child was pulled with, the request, and the node.
processParentNode(parentNode, mode, store) ==
    LET parentKeyValue == normalizeUndefined(parentNode.row[parentKey])
        parentPrimaryKey ==
            [i \in 1..Len(primaryKey) |-> normalizeUndefined(parentNode.row[primaryKey[i]])]
        storageKey == createPrimaryKeySetStorageKey(<<parentKeyValue>> \o parentPrimaryKey)
        second ==
            Cardinality(scan(store, createPrimaryKeySetStorageKeyPrefix(parentKeyValue))) >= 2
        method == IF mode = "cleanup"
                  THEN (IF second THEN "fetch" ELSE "cleanup")
                  ELSE mode
        request == Constrained(childKey, parentKeyValue)
        childStream == SourceFetch(childRows, request)
    IN  [storage |-> IF mode = "fetch" THEN store \cup {storageKey}
                     ELSE store \ {storageKey},
         method |-> method,
         request |-> request,
         node |-> [row |-> parentNode.row,
                   relationships |->
                       (relationshipName :> childStream) @@ parentNode.relationships]]

RECURSIVE processAll(_, _, _, _)
\* The loop of Join.fetch and Join.cleanup over the parent nodes the consumer
\* pulls: each is processed on the storage the one before left. An event records
\* one call of #processParentNode, and whether the row, and another row with the
\* same join value, was held when it was made.
processAll(nodes, mode, store, hold) ==
    IF nodes = <<>> THEN [storage |-> store, held |-> hold, events |-> <<>>]
    ELSE LET row == Head(nodes).row
             done == processParentNode(Head(nodes), mode, store)
             event == [row |-> row, mode |-> mode, method |-> done.method,
                       request |-> done.request, node |-> done.node,
                       wasHeld |-> row \in hold,
                       othersHeld |-> \E h \in hold \ {row} : h[parentKey] = row[parentKey]]
             rest == processAll(Tail(nodes), mode, done.storage,
                                IF mode = "fetch" THEN hold \cup {row} ELSE hold \ {row})
         IN  [storage |-> rest.storage, held |-> rest.held,
              events |-> <<event>> \o rest.events]

\* The round trip followed: a fetch that finds the storage empty begins one, the
\* pushes that follow belong to it, and the cleanup of the same request ends it.
\* `partial` tells that the consumer dropped one of its two streams before the end.
TripAfterFetch(req, partial) ==
    IF trip.phase = "off" THEN trip
    ELSE IF storage = {}
    THEN [phase |-> "open", req |-> Some(req), partial |-> partial, pushed |-> FALSE]
    ELSE NoTrip

TripAfterPush ==
    IF trip.phase = "off" THEN trip
    ELSE IF trip.phase = "open" THEN [trip EXCEPT !.pushed = TRUE]
    ELSE NoTrip

TripAfterCleanup(req, partial) ==
    IF trip.phase = "off" THEN trip
    ELSE IF trip.phase = "open" /\ trip.req = Some(req)
    THEN [trip EXCEPT !.phase = "closed", !.partial = @ \/ partial]
    ELSE NoTrip

\* The fetch marked: a complete fetch(req) is marked with the nodes it yielded, the
\* rows of the two inputs and the storage it left. The 'add' and 'remove' pushes
\* that follow belong to it; a complete fetch(req) made when both inputs hold the
\* marked rows again is recorded next to it, with the storage it found.
MarkAfterFetch(req, complete, nodes, stored) ==
    IF mark.phase = "off" THEN mark
    ELSE IF /\ mark.phase = "set" /\ mark.pushed /\ complete
            /\ mark.req = Some(req)
            /\ parentRows = mark.parentRows /\ childRows = mark.childRows
    THEN [mark EXCEPT !.phase = "again", !.nodesAgain = nodes, !.storageAgain = storage]
    ELSE IF complete
    THEN [NoMark EXCEPT !.phase = "set", !.req = Some(req), !.nodes = nodes,
                        !.parentRows = parentRows, !.childRows = childRows,
                        !.storage = stored]
    ELSE NoMark

MarkAfterPush(type) ==
    IF mark.phase = "off" THEN mark
    ELSE IF mark.phase = "set" /\ type \in {"add", "remove"}
    THEN [mark EXCEPT !.pushed = TRUE]
    ELSE NoMark

MarkAfterCleanup == IF mark.phase = "off" THEN mark ELSE NoMark

\* The state after construction: any rows in the inputs, nothing stored, no Output.
Constructed ==
    /\ parentRows \in RowSets(AllParentRows)
    /\ childRows \in RowSets(AllChildRows)
    /\ storage = {}
    /\ output = FALSE
    /\ held = {}
    /\ last = Nothing
    /\ ast = MakeAST(Undefined, None, None, None)
    /\ how = "init"
    /\ norm = ast
    /\ renorm = ast
    /\ prevNorm = ast
    /\ construction = Built
    /\ like = NoLike
    /\ pipeline = NoPipeline
    /\ keys = NoKeys
    /\ sync = NoSync

InitJoin == Constructed /\ trip = NotFollowed /\ mark = Unmarked

InitRoundTrip == Constructed /\ trip = NoTrip /\ mark = Unmarked

InitRepeatedFetch == Constructed /\ trip = NotFollowed /\ mark = NoMark

\* Join.setOutput(output).
SetOutput ==
    /\ ~output
    /\ output' = TRUE
    /\ last' = [Nothing EXCEPT !.op = "setOutput"]
    /\ UNCHANGED <<parentRows, childRows, storage, held, trip, mark, besidesJoin>>

\* Join.fetch(req), of which the consumer pulls the first `pulled` nodes.
JoinFetch ==
    \E req \in Requests :
      LET nodes == SourceFetch(parentRows, req)
      IN  \E pulled \in 0..Len(nodes) :
            LET done == processAll(SubSeq(nodes, 1, pulled), "fetch", storage, held)
            IN  /\ storage' = done.storage
                /\ held' = done.held
                /\ trip' = TripAfterFetch(req, pulled < Len(nodes))
                /\ mark' = MarkAfterFetch(req, pulled = Len(nodes),
                                          [i \in DOMAIN done.events |-> done.events[i].node],
                                          done.storage)
                /\ last' = [Nothing EXCEPT !.op = "fetch", !.req = Some(req),
                                           !.complete = (pulled = Len(nodes)),
                                           !.events = done.events]
                /\ UNCHANGED <<parentRows, childRows, output, besidesJoin>>

\* Join.cleanup(req), of which the consumer pulls the first `pulled` nodes.
JoinCleanup ==
    \E req \in Requests :
      LET nodes == SourceFetch(parentRows, req)
      IN  \E pulled \in 0..Len(nodes) :
            LET done == processAll(SubSeq(nodes, 1, pulled), "cleanup", storage, held)
            IN  /\ storage' = done.storage
                /\ held' = done.held
                /\ trip' = TripAfterCleanup(req, pulled < Len(nodes))
                /\ mark' = MarkAfterCleanup
                /\ last' = [Nothing EXCEPT !.op = "cleanup", !.req = Some(req),
                                           !.complete = (pulled = Len(nodes)),
                                           !.events = done.events]
                /\ UNCHANGED <<parentRows, childRows, output, besidesJoin>>

\* Join.#push(change, 'parent') for an 'add' or a 'remove' of `row`, on the parent
\* rows `rows` the input holds after the change.
\* A push from the parent that processes the node of a 'remove' in fetch mode too.
PushFromParentAlwaysFetch(type, row, rows) ==
    LET change == [type |-> type, node |-> SourceNode(row)]
        done == processAll(<<SourceNode(row)>>, "fetch", storage, held)
    IN  /\ output
        /\ parentRows' = rows
        /\ storage' = done.storage
        /\ held' = done.held
        /\ trip' = TripAfterPush
        /\ mark' = MarkAfterPush(type)
        /\ last' = [Nothing EXCEPT !.op = "pushParent", !.change = Some(change),
                                   !.events = done.events,
                                   !.emitted = <<[type |-> type, node |-> done.events[1].node]>>]
        /\ UNCHANGED <<childRows, output, besidesJoin>>

\* A push from the parent that returns before its change is put out.
PushFromParentDeferring(type, row, rows) ==
    LET change == [type |-> type, node |-> SourceNode(row)]
        done == processAll(<<SourceNode(row)>>, IF type = "add" THEN "fetch" ELSE "cleanup",
                           storage, held)
    IN  /\ output
        /\ parentRows' = rows
        /\ storage' = done.storage
        /\ held' = done.held
        /\ trip' = TripAfterPush
        /\ mark' = MarkAfterPush(type)
        /\ last' = [Nothing EXCEPT !.op = "pushParent", !.change = Some(change),
                                   !.events = done.events]
        /\ UNCHANGED <<childRows, output, besidesJoin>>

PushFromParent(type, row, rows) ==
    LET change == [type |-> type, node |-> SourceNode(row)]
        done == processAll(<<SourceNode(row)>>, IF type = "add" THEN "fetch" ELSE "cleanup",
                           storage, held)
    IN  /\ output
        /\ parentRows' = rows
        /\ storage' = done.storage
        /\ held' = done.held
        /\ trip' = TripAfterPush
        /\ mark' = MarkAfterPush(type)
        /\ last' = [Nothing EXCEPT !.op = "pushParent", !.change = Some(change),
                                   !.events = done.events,
                                   !.emitted = <<[type |-> type, node |-> done.events[1].node]>>]
        /\ UNCHANGED <<childRows, output, besidesJoin>>

\* The parent input adds a row and pushes the 'add'.
ParentAdd ==
    \E row \in AllParentRows :
        /\ \A r \in parentRows : r.id # row.id
        /\ PushFromParent("add", row, parentRows \cup {row})

\* The parent input removes a row and pushes the 'remove'.
ParentRemove ==
    \E row \in parentRows : PushFromParent("remove", row, parentRows \ {row})

\* Join.#push(change, 'parent') for a 'child' change: passed on as it is.
ParentChild ==
    \E row \in parentRows :
      LET change == [type |-> "child", row |-> row,
                     child |-> [relationshipName |-> "other", change |-> "nested"]]
      IN  /\ output
          /\ trip' = TripAfterPush
          /\ mark' = MarkAfterPush(change.type)
          /\ last' = [Nothing EXCEPT !.op = "pushParent", !.change = Some(change),
                                     !.emitted = <<change>>]
          /\ UNCHANGED <<parentRows, childRows, storage, held, output, besidesJoin>>

\* #push(change, 'child') fetching the parents without the constraint.
PushFromChildUnconstrained(change, childRow, rows) ==
    LET parentNodes == SourceFetch(parentRows, Unconstrained)
    IN  /\ output
        /\ childRows' = rows
        /\ trip' = TripAfterPush
        /\ mark' = MarkAfterPush(change.type)
        /\ last' = [Nothing EXCEPT
                      !.op = "pushChild", !.change = Some(change),
                      !.emitted = [i \in 1..Len(parentNodes) |->
                          [type |-> "child", row |-> parentNodes[i].row,
                           child |-> [relationshipName |-> relationshipName,
                                      change |-> change]]]]
        /\ UNCHANGED <<parentRows, storage, held, output, besidesJoin>>

\* #push(change, 'child') emitting for every parent row there can be with the
\* child row's key, in the parent input or not.
PushFromChildEveryParent(change, childRow, rows) ==
    LET parentNodes == SourceFetch(AllParentRows, Constrained(parentKey, childRow[childKey]))
    IN  /\ output
        /\ childRows' = rows
        /\ trip' = TripAfterPush
        /\ mark' = MarkAfterPush(change.type)
        /\ last' = [Nothing EXCEPT
                      !.op = "pushChild", !.change = Some(change),
                      !.emitted = [i \in 1..Len(parentNodes) |->
                          [type |-> "child", row |-> parentNodes[i].row,
                           child |-> [relationshipName |-> relationshipName,
                                      change |-> change]]]]
        /\ UNCHANGED <<parentRows, storage, held, output, besidesJoin>>

\* #push(change, 'child') that processes the parents it fetched in fetch mode.
PushFromChildProcessingParents(change, childRow, rows) ==
    LET parentNodes == SourceFetch(parentRows, Constrained(parentKey, childRow[childKey]))
        done == processAll(parentNodes, "fetch", storage, held)
    IN  /\ output
        /\ childRows' = rows
        /\ storage' = done.storage
        /\ held' = done.held
        /\ trip' = TripAfterPush
        /\ mark' = MarkAfterPush(change.type)
        /\ last' = [Nothing EXCEPT
                      !.op = "pushChild", !.change = Some(change),
                      !.events = done.events,
                      !.emitted = [i \in 1..Len(parentNodes) |->
                          [type |-> "child", row |-> parentNodes[i].row,
                           child |-> [relationshipName |-> relationshipName,
                                      change |-> change]]]]
        /\ UNCHANGED <<parentRows, output, besidesJoin>>

\* Join.#push(change, 'child') on the child rows `rows` the input holds after the
\* change: the matching parents are fetched from the parent input.
PushFromChild(change, childRow, rows) ==
    LET parentNodes == SourceFetch(parentRows, Constrained(parentKey, childRow[childKey]))
    IN  /\ output
        /\ childRows' = rows
        /\ trip' = TripAfterPush
        /\ mark' = MarkAfterPush(change.type)
        /\ last' = [Nothing EXCEPT
                      !.op = "pushChild", !.change = Some(change),
                      !.emitted = [i \in 1..Len(parentNodes) |->
                          [type |-> "child", row |-> parentNodes[i].row,
                           child |-> [relationshipName |-> relationshipName,
                                      change |-> change]]]]
        /\ UNCHANGED <<parentRows, storage, held, output, besidesJoin>>

\* The child input adds a row and pushes the 'add'.
ChildAdd ==
    \E row \in AllChildRows :
        /\ \A r \in childRows : r.id # row.id
        /\ PushFromChild([type |-> "add", node |-> SourceNode(row)], row,
                         childRows \cup {row})

\* The child input removes a row and pushes the 'remove'.
ChildRemove ==
    \E row \in childRows :
        PushFromChild([type |-> "remove", node |-> SourceNode(row)], row,
                      childRows \ {row})

\* The child input pushes a 'child' change of one of its rows.
ChildChild ==
    \E row \in childRows :
        PushFromChild([type |-> "child", row |-> row,
                       child |-> [relationshipName |-> "other", change |-> "nested"]],
                      row, childRows)

NextJoin ==
    \/ SetOutput
    \/ JoinFetch
    \/ JoinCleanup
    \/ ParentAdd
    \/ ParentRemove
    \/ ParentChild
    \/ ChildAdd
    \/ ChildRemove
    \/ ChildChild

SpecJoin == InitJoin /\ [][NextJoin]_vars

\* The same Join, with the subscribe round trips followed.
SpecRoundTrip == InitRoundTrip /\ [][NextJoin]_vars

\* The same Join, with the fetches repeated after pushes followed.
SpecRepeatedFetch == InitRepeatedFetch /\ [][NextJoin]_vars

(***************************************************************************)
(* The Join under inputs that break the protocol.                           *)
(***************************************************************************)
\* The parent input pushes a 'child' change of a row it does not hold:
\* Join.#push(change, 'parent') passes it on as it is.
StrayChild ==
    \E row \in AllParentRows \ parentRows :
      LET change == [type |-> "child", row |-> row,
                     child |-> [relationshipName |-> "other", change |-> "nested"]]
      IN  /\ output
          /\ trip' = TripAfterPush
          /\ mark' = MarkAfterPush(change.type)
          /\ last' = [Nothing EXCEPT !.op = "pushParent", !.change = Some(change),
                                     !.emitted = <<change>>]
          /\ UNCHANGED <<parentRows, childRows, storage, held, output, besidesJoin>>

\* The parent input pushes the 'add' of a row that the Join holds already.
DoubleAdd ==
    \E row \in parentRows \cap held : PushFromParent("add", row, parentRows)

\* A push before setOutput, the storage apart: the input that pushes has changed
\* its own rows already, and the assertion at the head of Join.#push fails.
Unheard(from, type, row) ==
    /\ ~output
    /\ IF from = "parent"
       THEN /\ row \in AllParentRows
            /\ parentRows' = CASE type = "add" -> parentRows \cup {row}
                               [] type = "remove" -> parentRows \ {row}
                               [] OTHER -> parentRows
            /\ UNCHANGED childRows
       ELSE /\ row \in AllChildRows
            /\ childRows' = CASE type = "add" -> childRows \cup {row}
                              [] type = "remove" -> childRows \ {row}
                              [] OTHER -> childRows
            /\ UNCHANGED parentRows
    /\ type = "add" => \A r \in (IF from = "parent" THEN parentRows ELSE childRows) :
                          r.id # row.id
    /\ type # "add" => row \in (IF from = "parent" THEN parentRows ELSE childRows)
    /\ trip' = TripAfterPush
    /\ mark' = MarkAfterPush(type)
    /\ last' = [Nothing EXCEPT
                  !.op = IF from = "parent" THEN "pushParent" ELSE "pushChild",
                  !.change =
                      Some(IF type = "child"
                           THEN [type |-> "child", row |-> row,
                                 child |-> [relationshipName |-> "other",
                                            change |-> "nested"]]
                           ELSE [type |-> type, node |-> SourceNode(row)]),
                  !.threw = TRUE]
    /\ UNCHANGED <<held, output, besidesJoin>>

\* A #push without the assertion at its head: a parent's add or remove is
\* processed, and its storage entry written, before the missing output is used.
PushWithoutOutputUnasserted ==
    \E from \in {"parent", "child"}, type \in {"add", "remove", "child"},
       row \in AllParentRows \cup AllChildRows :
          /\ Unheard(from, type, row)
          /\ storage' = IF from = "parent" /\ type # "child"
                        THEN processParentNode(SourceNode(row),
                                               IF type = "add" THEN "fetch" ELSE "cleanup",
                                               storage).storage
                        ELSE storage

\* An input pushes a change before setOutput was called: the assertion at the head
\* of Join.#push fails.
PushWithoutOutput ==
    \E from \in {"parent", "child"}, type \in {"add", "remove", "child"},
       row \in AllParentRows \cup AllChildRows :
          /\ Unheard(from, type, row)
          /\ storage' = storage

NextFaulty ==
    \/ NextJoin
    \/ StrayChild
    \/ DoubleAdd

SpecFaulty == InitJoin /\ [][NextFaulty]_vars

\* The Join before setOutput: fetches, cleanups, and a push that comes too early
\* (the failed assertion is fatal: nothing is done after it).
SpecUnattached ==
    /\ InitJoin
    /\ [][\/ ~last.threw /\ JoinFetch
          \/ ~last.threw /\ JoinCleanup
          \/ ~last.threw /\ PushWithoutOutput]_vars

(***************************************************************************)
(* Properties of the Join.                                                  *)
(***************************************************************************)
\* The calls of #processParentNode the last operation made.
Events == {last.events[i] : i \in DOMAIN last.events}

\* C3: after a round trip fetch(req), pushes, cleanup(req), with both streams
\* iterated to the end, the storage is what it was before the fetch (empty).
C3_RoundTripRestoresStorage ==
    (trip.phase = "closed" /\ ~trip.partial) => storage = {}

\* C4: a parent processed in cleanup mode pulls the child with child.cleanup only
\* if no other parent row with the same join value is still held by the Join.
C4_CleanupOnlyWithoutHeldSibling ==
    \A e \in Events : (e.mode = "cleanup" /\ e.method = "cleanup") => ~e.othersHeld

\* C5: a held parent processed in cleanup mode pulls the child with child.fetch
\* while another parent with its join value is held, and with child.cleanup when
\* it is the last one held for its join value.
C5_LastHeldParentCleansUp ==
    \A e \in Events :
        (e.mode = "cleanup" /\ e.wasHeld) =>
            e.method = (IF e.othersHeld THEN "fetch" ELSE "cleanup")

\* C5 witness: a cleanup went over two held parents with one join value: the child
\* was pulled with fetch for the first and with cleanup for the second.
C5_Witness ==
    /\ last.op = "cleanup"
    /\ Len(last.events) = 2
    /\ last.events[1].row[parentKey] = last.events[2].row[parentKey]
    /\ last.events[1].wasHeld /\ last.events[2].wasHeld
    /\ last.events[1].method = "fetch"
    /\ last.events[2].method = "cleanup"

\* C6: for a push from the child input Join emits one 'child' change for each
\* parent row whose parentKey value is the child row's childKey value, rooted at
\* that row and wrapping the change under relationshipName, and nothing else.
C6_ChildPushReachesMatchingParents ==
    last.op = "pushChild" =>
        LET change == last.change.v
            childRow == IF change.type = "child" THEN change.row ELSE change.node.row
            matching == {p \in parentRows : p[parentKey] = childRow[childKey]}
        IN  /\ Len(last.emitted) = Cardinality(matching)
            /\ \A p \in matching :
                  \E i \in DOMAIN last.emitted :
                      last.emitted[i] =
                          [type |-> "child", row |-> p,
                           child |-> [relationshipName |-> relationshipName,
                                      change |-> change]]

\* C6 witness: a child row was added whose childKey value two parents share, and
\* two 'child' changes were emitted.
C6_Witness ==
    /\ last.op = "pushChild"
    /\ last.change.v.type = "add"
    /\ Len(last.emitted) = 2

\* The rows a stream of nodes yields.
RowsOf(stream) == {stream[i].row : i \in DOMAIN stream}

\* C7: the relationship of every node Join outputs yields exactly the rows of the
\* child input whose childKey value is the node's parentKey value, each once.
C7_RelationshipHoldsMatchingChildren ==
    \A e \in Events :
        LET stream == e.node.relationships[relationshipName]
            matching == {c \in childRows : c[childKey] = e.node.row[parentKey]}
        IN  /\ e.node.row = e.row
            /\ RowsOf(stream) = matching
            /\ Len(stream) = Cardinality(matching)

\* C7 witness: Join output two nodes, one whose relationship yields a child row
\* and one whose relationship yields none although the child input has a row.
C7_Witness ==
    \E e1 \in Events, e2 \in Events :
        /\ Len(e1.node.relationships[relationshipName]) = 1
        /\ Len(e2.node.relationships[relationshipName]) = 0
        /\ childRows # {}

\* C8: whatever part of the streams of fetch(req) and cleanup(req) the consumer
\* iterates, no storage entry is left once the round trip has been made.
C8_PartialIterationLeavesNothing ==
    (trip.phase = "closed" /\ ~trip.pushed) => storage = {}


\* C13: after 'add' and 'remove' pushes whose net effect on both inputs is empty,
\* fetch(req) yields the nodes it yielded before them, and the storage is the one
\* the fetch before them left.
C13_NetEmptyPushesChangeNothing ==
    mark.phase = "again" =>
        /\ mark.nodesAgain = mark.nodes
        /\ mark.storageAgain = mark.storage

\* C15: a 'child' change pushed to the Join whose parent row is not present (the
\* parent input does not hold the row the change names, or holds no row the
\* changed child row joins) fails an assertion.
C15_ChildChangeWithoutParentFails ==
    LET change == last.change.v
        absent ==
            \/ last.op = "pushParent" /\ change.row \notin parentRows
            \/ last.op = "pushChild"
                 /\ \A p \in parentRows : p[parentKey] # change.row[childKey]
    IN  (last.op \in {"pushParent", "pushChild"} /\ change.type = "child" /\ absent)
            => last.threw

\* C16: the 'add' of a parent row that the Join holds already, with no 'remove'
\* in between, fails an assertion, and no second 'add' is emitted for it.
C16_DoubleAddFails ==
    (/\ last.op = "pushParent"
     /\ last.change.v.type = "add"
     /\ last.events # <<>>
     /\ last.events[1].wasHeld)
        => (last.threw /\ last.emitted = <<>>)

\* C17: every 'child' change emitted for a push from the child input names a
\* parent row that the parent input holds when the change is emitted, whatever
\* parent and child pushes came before.
C17_EmittedParentExists ==
    last.op = "pushChild" =>
        \A i \in DOMAIN last.emitted :
            /\ last.emitted[i].type = "child"
            /\ last.emitted[i].row \in parentRows

\* C17 witness: after a parent push made the Join hold a row, a child push was
\* emitted for a parent row, while another row with the same join value is not
\* in the parent input.
C17_Witness ==
    /\ last.op = "pushChild"
    /\ last.emitted # <<>>
    /\ held # {}
    /\ \E r \in AllParentRows \ parentRows :
          r[parentKey] = last.emitted[1].row[parentKey]

(***************************************************************************)
(* Construction of a Join.                                                  *)
(***************************************************************************)
\* The operators a Join can be constructed over, by identity.
Operators == {"issues", "comments", "labels"}

\* Before `new Join(parent, child, storage, ...)`: the two inputs are any
\* operators, the same one included, and the storage handed over is empty.
InitConstruct ==
    /\ construction \in {[phase |-> "new", parent |-> p, child |-> c,
                           assigned |-> FALSE, wired |-> <<>>] :
                             p \in Operators, c \in Operators}
    /\ parentRows \in RowSets(AllParentRows)
    /\ childRows \in IF construction.parent = construction.child
                     THEN {parentRows} ELSE RowSets(AllChildRows)
    /\ storage = {}
    /\ output = FALSE
    /\ held = {}
    /\ trip = NotFollowed
    /\ mark = Unmarked
    /\ last = Nothing
    /\ ast = MakeAST(Undefined, None, None, None)
    /\ how = "init"
    /\ norm = ast
    /\ renorm = ast
    /\ prevNorm = ast
    /\ like = NoLike
    /\ pipeline = NoPipeline
    /\ keys = NoKeys
    /\ sync = NoSync

\* The constructor with the assertion after the calls of setOutput.
ConstructAssertingLast ==
    /\ construction.phase = "new"
    /\ construction' =
          [construction EXCEPT
              !.phase = IF construction.parent # construction.child
                        THEN "built" ELSE "failed",
              !.assigned = TRUE,
              !.wired = <<construction.parent, construction.child>>]
    /\ UNCHANGED <<joinVars, astVars, like, pipeline, keys, sync>>

\* Join.constructor: the assertion that parent and child differ comes first; then
\* the fields are assigned and setOutput is called on the parent and on the child.
Construct ==
    /\ construction.phase = "new"
    /\ construction' =
          IF construction.parent # construction.child
          THEN [construction EXCEPT !.phase = "built", !.assigned = TRUE,
                    !.wired = <<construction.parent, construction.child>>]
          ELSE [construction EXCEPT !.phase = "failed"]
    /\ UNCHANGED <<joinVars, astVars, like, pipeline, keys, sync>>

NextConstruct == Construct

SpecConstruct == InitConstruct /\ [][NextConstruct]_vars

\* C14: constructing a Join over one operator as parent and as child fails, and it
\* fails before a field is assigned, before setOutput is called on the input and
\* with the storage untouched; over two different operators it succeeds.
C14_SameOperatorFailsAtConstruction ==
    construction.phase # "new" =>
        /\ construction.phase = "failed" <=> construction.parent = construction.child
        /\ construction.phase = "failed" =>
              /\ construction.wired = <<>>
              /\ ~construction.assigned
              /\ storage = {} /\ ~output /\ held = {}

\* C14 witness: the constructor has run over the same operator twice, and failed.
C14_Witness ==
    /\ construction.phase = "failed"
    /\ construction.parent = construction.child

(***************************************************************************)
(* LIKE conditions: getOperator, getLikeOp and patternToRegExp.             *)
(***************************************************************************)
\* A string is a sequence of characters; a character is a string of length one.
Backslash == "\\"
LineFeed == "\n"

\* The characters `.` of a regular expression does not match without the s flag.
LineTerminators == {LineFeed}

\* The characters of the patterns, and of the strings the predicates are applied to.
PatternChars == {"a", "A", "%", "_", Backslash, "."}
InputChars == {"a", "A", "%", Backslash, LineFeed}

\* The patterns and strings of the examples.
EscapedPercentPattern == <<"f", "o", "o", Backslash, "%", "b", "a", "r">>
WildcardsPattern == <<"f", "_", "o", "%">>
ExampleInputs ==
    {<<"f", "o", "o", "%", "b", "a", "r">>,
     <<"f", "o", "o", "X", "b", "a", "r">>,
     <<"f", "o", "o", Backslash, "%", "b", "a", "r">>,
     <<"f", "o", "o", "b", "a", "r">>,
     <<"f", "X", "o">>,
     <<"f", "o">>}

\* U+212A KELVIN SIGN, a character outside ASCII whose lower case is the ASCII k.
KelvinSign == "U+212A"
KelvinPatterns == {<<"k">>, <<"K">>, <<KelvinSign>>, <<"k", "%">>}
KelvinInputs == {<<"k">>, <<"K">>, <<KelvinSign>>}

Patterns ==
    SeqsUpTo(PatternChars, MaxPattern)
        \cup {EscapedPercentPattern, WildcardsPattern} \cup KelvinPatterns
Inputs == SeqsUpTo(InputChars, MaxInput) \cup ExampleInputs \cup KelvinInputs

\* The rows the filter is seen to evaluate: the strings of at most one character.
Rows == {lhs \in Inputs : Len(lhs) <= 1}

LikeOps == {"LIKE", "NOT LIKE", "ILIKE", "NOT ILIKE"}

\* String.prototype.toLowerCase: the Unicode lower case of each character.
toLowerCase(str) ==
    [i \in DOMAIN str |-> CASE str[i] = "A" -> "a"
                            [] str[i] \in {"K", KelvinSign} -> "k"
                            [] OTHER -> str[i]]

\* specialCharsRe: $ ( ) * + . ? [ ] \ ^ { | }
specialChars ==
    {"$", "(", ")", "*", "+", ".", "?", "[", "]", Backslash, "^", "{", "|", "}"}

\* What the default branch of the switch appends for the character c.
literal(c) == IF c \in specialChars THEN <<Backslash, c>> ELSE <<c>>

RECURSIVE translate(_, _)
\* A loop that does not take the character after a backslash out of the switch:
\* an escaped wildcard stays a wildcard.
translateEscapedBySwitch(source, i) ==
    IF i > Len(source) THEN [threw |-> FALSE, text |-> <<>>]
    ELSE
      LET c == source[i]
          after(text, next) ==
              LET rest == translate(source, next)
              IN  IF rest.threw THEN rest
                  ELSE [threw |-> FALSE, text |-> text \o rest.text]
      IN  CASE c = "%" -> after(<<".", "*">>, i + 1)
            [] c = "_" -> after(<<".">>, i + 1)
            [] c = Backslash ->
                 IF i = Len(source) THEN [threw |-> TRUE, text |-> <<>>]
                 ELSE IF source[i + 1] \in {"%", "_"} THEN after(<<>>, i + 1)
                 ELSE after(literal(source[i + 1]), i + 2)
            [] OTHER -> after(literal(c), i + 1)

\* A loop that takes a final backslash for a literal backslash.
translateFinalBackslashLiteral(source, i) ==
    IF i > Len(source) THEN [threw |-> FALSE, text |-> <<>>]
    ELSE
      LET c == source[i]
          after(text, next) ==
              LET rest == translate(source, next)
              IN  IF rest.threw THEN rest
                  ELSE [threw |-> FALSE, text |-> text \o rest.text]
      IN  CASE c = "%" -> after(<<".", "*">>, i + 1)
            [] c = "_" -> after(<<".">>, i + 1)
            [] c = Backslash ->
                 IF i = Len(source) THEN after(literal(c), i + 1)
                 ELSE after(literal(source[i + 1]), i + 2)
            [] OTHER -> after(literal(c), i + 1)

\* The loop of patternToRegExp from index i on: the text appended to the pattern,
\* or the error thrown.
translate(source, i) ==
    IF i > Len(source) THEN [threw |-> FALSE, text |-> <<>>]
    ELSE
      LET c == source[i]
          after(text, next) ==
              LET rest == translate(source, next)
              IN  IF rest.threw THEN rest
                  ELSE [threw |-> FALSE, text |-> text \o rest.text]
      IN  CASE c = "%" -> after(<<".", "*">>, i + 1)
            [] c = "_" -> after(<<".">>, i + 1)
            [] c = Backslash ->
                 IF i = Len(source) THEN [threw |-> TRUE, text |-> <<>>]
                 ELSE after(literal(source[i + 1]), i + 2)
            [] OTHER -> after(literal(c), i + 1)

\* patternToRegExp(source, flags): the source text and the flags of the RegExp, or
\* the error thrown.
patternToRegExp(source, flags) ==
    LET body == translate(source, 1)
    IN  IF body.threw THEN [threw |-> TRUE, source |-> <<>>, flags |-> flags]
        ELSE [threw |-> FALSE, source |-> <<"^">> \o body.text \o <<"$">>,
              flags |-> flags]

RECURSIVE atoms(_, _)
\* The terms of a regular expression text from index i on: an assertion, `.`, or
\* a character (escaped or not), each with or without the quantifier `*`.
atoms(text, i) ==
    IF i > Len(text) THEN <<>>
    ELSE
      LET c == text[i]
          escaped == c = Backslash
          width == IF escaped THEN 2 ELSE 1
          kind == CASE escaped -> "char"
                    [] c = "^" -> "start"
                    [] c = "$" -> "end"
                    [] c = "." -> "any"
                    [] OTHER -> "char"
          star == i + width <= Len(text) /\ text[i + width] = "*"
      IN  <<[kind |-> kind, char |-> IF escaped THEN text[i + 1] ELSE c, star |-> star]>>
          \o atoms(text, i + width + (IF star THEN 1 ELSE 0))

\* Canonicalize of the regular expression semantics without the u flag: under the
\* i flag a character becomes its toUpperCase, which the Kelvin sign is already.
canonical(c, flags) ==
    CASE flags = "i" /\ c = "a" -> "A"
      [] flags = "i" /\ c = "k" -> "K"
      [] OTHER -> c

\* Whether one term matches the character c.
atomMatches(atom, c, flags) ==
    CASE atom.kind = "any" -> c \notin LineTerminators
      [] atom.kind = "char" -> canonical(c, flags) = canonical(atom.char, flags)
      [] OTHER -> FALSE

RECURSIVE matchFrom(_, _, _, _, _)
\* Whether the terms from index k on match lhs from index j on (no m flag: ^ and $
\* match at the two ends of lhs only).
matchFrom(terms, k, lhs, j, flags) ==
    IF k > Len(terms) THEN TRUE
    ELSE
      LET atom == terms[k]
      IN  CASE atom.kind = "start" -> j = 1 /\ matchFrom(terms, k + 1, lhs, j, flags)
            [] atom.kind = "end" ->
                 j = Len(lhs) + 1 /\ matchFrom(terms, k + 1, lhs, j, flags)
            [] atom.star ->
                 \E n \in 0..(Len(lhs) + 1 - j) :
                    /\ \A m \in j..(j + n - 1) : atomMatches(atom, lhs[m], flags)
                    /\ matchFrom(terms, k + 1, lhs, j + n, flags)
            [] OTHER ->
                 /\ j <= Len(lhs)
                 /\ atomMatches(atom, lhs[j], flags)
                 /\ matchFrom(terms, k + 1, lhs, j + 1, flags)

\* RegExp.prototype.test: a match starting anywhere in lhs.
test(re, lhs) ==
    \E start \in 1..(Len(lhs) + 1) : matchFrom(atoms(re.source, 1), 1, lhs, start, re.flags)

\* getLikeOp(pattern, flags): the predicate, as the set of the strings it accepts,
\* or the error thrown.
getLikeOp(pattern, flags) ==
    IF \A i \in DOMAIN pattern : pattern[i] \notin {"_", "%", Backslash}
    THEN [threw |-> FALSE,
          accepts |-> IF flags = "i"
                      THEN {lhs \in Inputs : toLowerCase(lhs) = toLowerCase(pattern)}
                      ELSE {lhs \in Inputs : lhs = pattern}]
    ELSE LET re == patternToRegExp(pattern, flags)
         IN  IF re.threw THEN [threw |-> TRUE, accepts |-> {}]
             ELSE [threw |-> FALSE, accepts |-> {lhs \in Inputs : test(re, lhs)}]

\* not(f).
not(f) == IF f.threw THEN f ELSE [threw |-> FALSE, accepts |-> Inputs \ f.accepts]

\* The numbers a column of a row of a pipeline holds.
ColumnValues == {1, 2, 5}

\* getOperator(condition) for the comparisons of numbers and for the four LIKE
\* operators: the predicate, as the set of the values it accepts.
getOperator(condition) ==
    LET rhs == condition.value.value
        compares(accepted) == [threw |-> FALSE, accepts |-> accepted]
    IN  CASE condition.op = "LIKE" -> getLikeOp(rhs, "")
          [] condition.op = "NOT LIKE" -> not(getLikeOp(rhs, ""))
          [] condition.op = "ILIKE" -> getLikeOp(rhs, "i")
          [] condition.op = "NOT ILIKE" -> not(getLikeOp(rhs, "i"))
          [] condition.op = "=" -> compares({lhs \in ColumnValues : lhs = rhs})
          [] condition.op = "!=" -> compares({lhs \in ColumnValues : lhs # rhs})
          [] condition.op = "<" -> compares({lhs \in ColumnValues : lhs < rhs})
          [] condition.op = ">" -> compares({lhs \in ColumnValues : lhs > rhs})
          [] condition.op = ">=" -> compares({lhs \in ColumnValues : lhs >= rhs})
          [] condition.op = "<=" -> compares({lhs \in ColumnValues : lhs <= rhs})

\* An AST whose WHERE is one LIKE condition is about to be built into a pipeline.
InitLike ==
    /\ like \in {[phase |-> "ast", condition |-> Simple("title", op, pattern),
                  accepts |-> {}, evaluated |-> None] :
                    op \in LikeOps, pattern \in Patterns}
    /\ construction = Built
    /\ pipeline = NoPipeline
    /\ keys = NoKeys
    /\ sync = NoSync
    /\ parentRows = {}
    /\ childRows = {}
    /\ storage = {}
    /\ output = FALSE
    /\ held = {}
    /\ trip = NotFollowed
    /\ mark = Unmarked
    /\ last = Nothing
    /\ ast = MakeAST(Undefined, None, None, None)
    /\ how = "init"
    /\ norm = ast
    /\ renorm = ast
    /\ prevNorm = ast

\* buildPipeline, applyWhere, applySimpleCondition: the operator is got from the
\* condition, and then the stream is filtered by it.
Build ==
    /\ like.phase = "ast"
    /\ LET operator == getOperator(like.condition)
       IN  like' = IF operator.threw
                   THEN [like EXCEPT !.phase = "threw"]
                   ELSE [like EXCEPT !.phase = "built", !.accepts = operator.accepts]
    /\ UNCHANGED <<astVars, joinVars, construction, pipeline, keys, sync>>

\* The filter of the built pipeline evaluates a row.
Evaluate ==
    /\ like.phase = "built"
    /\ \E lhs \in Rows :
          like' = [like EXCEPT !.evaluated = Some([lhs |-> lhs,
                                                   passed |-> lhs \in like.accepts])]
    /\ UNCHANGED <<astVars, joinVars, construction, pipeline, keys, sync>>

NextLike == Build \/ Evaluate

SpecLike == InitLike /\ [][NextLike]_vars

(***************************************************************************)
(* Claims about LIKE conditions.                                            *)
(***************************************************************************)
LikePattern == like.condition.value.value

\* The final backslash of the pattern is not itself escaped: the pattern ends
\* with an odd number of backslashes.
DanglingEscape(pattern) ==
    LET trailing == CHOOSE n \in 0..Len(pattern) :
                       /\ \A i \in (Len(pattern) - n + 1)..Len(pattern) :
                             pattern[i] = Backslash
                       /\ n < Len(pattern) => pattern[Len(pattern) - n] # Backslash
    IN  trailing % 2 = 1

RECURSIVE Escaping(_, _)
\* The indices from i on of the backslashes that escape the character after them.
Escaping(pattern, i) ==
    IF i > Len(pattern) THEN {}
    ELSE IF pattern[i] = Backslash THEN {i} \cup Escaping(pattern, i + 2)
    ELSE Escaping(pattern, i + 1)

RECURSIVE LikeMatches(_, _, _, _)
\* The stated meaning of a pattern from index i on, for lhs from index j on: `%`
\* stands for any run of characters of any kind, `_` for one character of any
\* kind, an escaped character and every other character for itself, and the whole
\* of lhs is matched.
LikeMatches(pattern, i, lhs, j) ==
    IF i > Len(pattern) THEN j = Len(lhs) + 1
    ELSE CASE pattern[i] = "%" ->
                \E n \in 0..(Len(lhs) + 1 - j) : LikeMatches(pattern, i + 1, lhs, j + n)
           [] pattern[i] = "_" ->
                j <= Len(lhs) /\ LikeMatches(pattern, i + 1, lhs, j + 1)
           [] pattern[i] = Backslash /\ i < Len(pattern) ->
                /\ j <= Len(lhs)
                /\ lhs[j] = pattern[i + 1]
                /\ LikeMatches(pattern, i + 2, lhs, j + 1)
           [] OTHER ->
                /\ j <= Len(lhs)
                /\ lhs[j] = pattern[i]
                /\ LikeMatches(pattern, i + 1, lhs, j + 1)

\* C18: the predicate built for a LIKE condition accepts exactly the strings the
\* pattern matches as a whole, where `%` matches any run of characters, line
\* terminators included, `_` matches one character of any kind, and every other
\* unescaped character matches itself.
C18_WholeStringAnyCharacter ==
    (like.phase = "built" /\ like.condition.op = "LIKE")
        => like.accepts = {lhs \in Inputs : LikeMatches(LikePattern, 1, lhs, 1)}

\* The pattern with the escaping backslashes taken out.
Unescaped(pattern) ==
    LET kept == {i \in DOMAIN pattern : i \notin Escaping(pattern, 1)}
        RECURSIVE from(_)
        from(i) == IF i > Len(pattern) THEN <<>>
                   ELSE IF i \in kept THEN <<pattern[i]>> \o from(i + 1)
                   ELSE from(i + 1)
    IN  from(1)

\* The wildcards of the pattern that no backslash escapes.
Wildcards(pattern) ==
    {i \in DOMAIN pattern : /\ pattern[i] \in {"%", "_"}
                            /\ i - 1 \notin Escaping(pattern, 1)}

\* C19: a backslash followed by a character x matches exactly the literal x: a
\* LIKE pattern with escapes and no unescaped wildcard accepts the pattern without
\* its escaping backslashes and nothing else; foo\%bar accepts foo%bar only; f_o%
\* accepts fXo and foobar and does not accept fo.
C19_EscapedCharacterIsLiteral ==
    (like.phase = "built" /\ like.condition.op = "LIKE")
        => /\ (Escaping(LikePattern, 1) # {} /\ Wildcards(LikePattern) = {})
                 => like.accepts = {Unescaped(LikePattern)} \cap Inputs
           /\ LikePattern = EscapedPercentPattern
                 => like.accepts = {<<"f", "o", "o", "%", "b", "a", "r">>}
           /\ LikePattern = WildcardsPattern
                 => /\ <<"f", "X", "o">> \in like.accepts
                    /\ <<"f", "o", "o", "b", "a", "r">> \in like.accepts
                    /\ <<"f", "o">> \notin like.accepts

C19_Witness ==
    /\ like.phase = "built"
    /\ like.condition.op = "LIKE"
    /\ LikePattern = EscapedPercentPattern
    /\ like.accepts = {<<"f", "o", "o", "%", "b", "a", "r">>}
    /\ like.evaluated # None

\* C20: for LIKE, NOT LIKE, ILIKE and NOT ILIKE alike, building the pipeline
\* throws exactly when the pattern ends with a backslash that is not itself
\* escaped, and it throws before any row is evaluated; a pattern whose final
\* backslash is escaped, and a pattern that does not end with a backslash, are built.
C20_DanglingEscapeThrowsAtBuild ==
    /\ like.phase \in {"built", "threw"}
          => (like.phase = "threw" <=> DanglingEscape(LikePattern))
    /\ like.phase = "threw" => like.evaluated = None

C20_Witness ==
    /\ like.phase = "threw"
    /\ like.condition.op = "NOT ILIKE"
    /\ LikePattern = <<Backslash, Backslash, Backslash>>

\* The pattern holds none of the characters %, _ and backslash.
NoWildcards(pattern) == \A i \in DOMAIN pattern : pattern[i] \notin {"%", "_", Backslash}

\* C31: the predicate built for LIKE or ILIKE with a pattern without %, _ and
\* backslash is string equality, of the lower-cased strings for ILIKE, and it
\* accepts exactly the strings that the anchored regular expression translated
\* from the same pattern accepts.
C31_FastPathIsTheRegExp ==
    (/\ like.phase = "built"
     /\ like.condition.op \in {"LIKE", "ILIKE"}
     /\ NoWildcards(LikePattern))
        => LET flags == IF like.condition.op = "ILIKE" THEN "i" ELSE ""
               re == patternToRegExp(LikePattern, flags)
           IN  /\ like.accepts =
                     IF flags = "i"
                     THEN {lhs \in Inputs : toLowerCase(lhs) = toLowerCase(LikePattern)}
                     ELSE {lhs \in Inputs : lhs = LikePattern}
               /\ ~re.threw
               /\ like.accepts = {lhs \in Inputs : test(re, lhs)}

(***************************************************************************)
(* The storage keys of the Join, made of tuples of values.                  *)
(***************************************************************************)
\* The values of a column joined on, and of a primary key column.
KeyValues ==
    {Str("u1"), Str("u10"), Str("1"), Num("1"), Num("10"), Null, Str("null"),
     Num("NaN"), Str("true"), [t |-> "boolean", text |-> "true"],
     Str("u1\",\"i1"), Str("u1\\")}
PrimaryKeyValues == {Str("i1"), Str("i2"), Num("1")}

\* The tuples (parentKey value, primary key values) of a parent node, for a
\* primary key of one column.
KeyTuples == {<<v, k>> : v \in KeyValues, k \in PrimaryKeyValues}

InitKeys ==
    /\ keys \in {[phase |-> "drawn", a |-> a, b |-> b, keyOfA |-> <<>>, keyOfB |-> <<>>,
                   prefixOfA |-> <<>>] : a \in KeyTuples, b \in KeyTuples}
    /\ sync = NoSync
    /\ pipeline = NoPipeline
    /\ like = NoLike
    /\ construction = Built
    /\ parentRows = {}
    /\ childRows = {}
    /\ storage = {}
    /\ output = FALSE
    /\ held = {}
    /\ trip = NotFollowed
    /\ mark = Unmarked
    /\ last = Nothing
    /\ ast = MakeAST(Undefined, None, None, None)
    /\ how = "init"
    /\ norm = ast
    /\ renorm = ast
    /\ prevNorm = ast

\* #processParentNode makes the storage key of each tuple and the scan prefix of
\* the join value of the first.
MakeKeys ==
    /\ keys.phase = "drawn"
    /\ keys' = [keys EXCEPT
                  !.phase = "made",
                  !.keyOfA = createPrimaryKeySetStorageKey(keys.a),
                  !.keyOfB = createPrimaryKeySetStorageKey(keys.b),
                  !.prefixOfA = createPrimaryKeySetStorageKeyPrefix(keys.a[1])]
    /\ UNCHANGED <<astVars, joinVars, construction, like, pipeline, sync>>

SpecKeys == InitKeys /\ [][MakeKeys]_vars

Threw(error) == [kind |-> "threw", error |-> error]

\* getValueFromEntity(entity, qualifiedColumn) of an entity that is no join result.
getValueFromEntity(entity, qualifiedColumn) == entity[qualifiedColumn[2]]

\* applySimpleCondition(stream, condition), for a selector without a dot: the
\* operator is got first, then the stream is filtered.
applySimpleCondition(stream, condition) ==
    LET operator == getOperator(condition)
    IN  IF operator.threw
        THEN Threw("LIKE pattern must not end with escape character")
        ELSE [kind |-> "filter", input |-> stream,
              qualifiedColumn |-> <<condition.field, condition.field>>,
              accepts |-> operator.accepts]

RECURSIVE applyWhere(_, _)
\* applyOr without the distinct operator after concat.
applyOrConcatOnly(stream, conditions) ==
    LET branches == [i \in DOMAIN conditions |-> applyWhere(stream, conditions[i])]
        failed == {i \in DOMAIN branches : branches[i].kind = "threw"}
    IN  IF failed # {} THEN branches[CHOOSE i \in failed : \A j \in failed : i <= j]
        ELSE [kind |-> "concat", inputs |-> branches]

\* applyOr(stream, conditions): one branch a condition, concat, distinct.
applyOr(stream, conditions) ==
    LET branches == [i \in DOMAIN conditions |-> applyWhere(stream, conditions[i])]
        failed == {i \in DOMAIN branches : branches[i].kind = "threw"}
    IN  IF failed # {} THEN branches[CHOOSE i \in failed : \A j \in failed : i <= j]
        ELSE [kind |-> "distinct", input |-> [kind |-> "concat", inputs |-> branches]]

\* applyAnd applying the first condition only.
applyAndFirstOnly(stream, conditions) ==
    IF conditions = <<>> THEN stream ELSE applyWhere(stream, conditions[1])

\* applyAnd(stream, conditions): the conditions applied one after the other.
applyAnd(stream, conditions) ==
    LET RECURSIVE from(_, _)
        from(sofar, i) ==
            IF i > Len(conditions) \/ sofar.kind = "threw" THEN sofar
            ELSE from(applyWhere(sofar, conditions[i]), i + 1)
    IN  from(stream, 1)

\* applyWhere(stream, where).
applyWhere(stream, where) ==
    CASE where.op = "AND" -> applyAnd(stream, where.conditions)
      [] where.op = "OR" -> applyOr(stream, where.conditions)
      [] OTHER -> applySimpleCondition(stream, where)

\* applyGroupBy(stream, columns, aggregations): stream.reduce with the key
\* function of the columns.
applyGroupBy(stream, columns, aggregations) ==
    [kind |-> "reduce", input |-> stream, columns |-> columns,
     aggregations |-> aggregations]

\* applyFullTableAggregation that lets 'min' through as if it were 'count'.
applyFullTableAggregationAllowingMin(stream, aggregations) ==
    LET RECURSIVE from(_, _)
        from(ret, i) ==
            IF i > Len(aggregations) THEN ret
            ELSE LET agg == aggregations[i]
                 IN  IF agg.aggregate \in {"array", "max"}
                     THEN Threw(agg.aggregate \o " not yet supported outside of group-by")
                     ELSE from([kind |-> agg.aggregate, input |-> ret, agg |-> agg],
                               i + 1)
    IN  from(stream, 1)

\* applyFullTableAggregation(stream, aggregations).
applyFullTableAggregation(stream, aggregations) ==
    LET RECURSIVE from(_, _)
        from(ret, i) ==
            IF i > Len(aggregations) THEN ret
            ELSE LET agg == aggregations[i]
                 IN  IF agg.aggregate \in {"array", "min", "max"}
                     THEN Threw(agg.aggregate \o " not yet supported outside of group-by")
                     ELSE from([kind |-> agg.aggregate, input |-> ret, agg |-> agg],
                               i + 1)
    IN  from(stream, 1)

\* buildPipeline with `if` where the code has `else if`: both aggregate stages.
buildPipelineBothAggregates(a) ==
    IF ~a.table.present
    THEN [stream |-> Threw("Table not specified in the AST"), stages |-> <<>>]
    ELSE
      LET source == [kind |-> "source", table |-> a.table.v]
          filtered == IF a.where # Undefined THEN applyWhere(source, a.where)
                      ELSE source
          whereStage == IF a.where # Undefined THEN <<"where">> ELSE <<>>
          grouped == IF a.groupBy.present
                     THEN applyGroupBy(filtered, a.groupBy.v,
                                       IF a.aggregate.present THEN a.aggregate.v
                                       ELSE <<>>)
                     ELSE filtered
          groupStage == IF a.groupBy.present THEN <<"groupBy">> ELSE <<>>
      IN  IF filtered.kind = "threw"
          THEN [stream |-> filtered, stages |-> <<"source", "where">>]
          ELSE IF a.aggregate.present
          THEN [stream |-> applyFullTableAggregation(grouped, a.aggregate.v),
                stages |-> <<"source">> \o whereStage \o groupStage
                           \o <<"fullAggregate">>]
          ELSE [stream |-> grouped, stages |-> <<"source">> \o whereStage \o groupStage]

\* buildPipeline(sourceStreamProvider, ast): the stream returned or the error
\* thrown, and the stages entered, in the order they were entered.
buildPipeline(a) ==
    IF ~a.table.present
    THEN [stream |-> Threw("Table not specified in the AST"), stages |-> <<>>]
    ELSE
      LET source == [kind |-> "source", table |-> a.table.v]
          filtered == IF a.where # Undefined THEN applyWhere(source, a.where)
                      ELSE source
          whereStage == IF a.where # Undefined THEN <<"where">> ELSE <<>>
      IN  IF filtered.kind = "threw"
          THEN [stream |-> filtered, stages |-> <<"source", "where">>]
          ELSE IF a.groupBy.present
          THEN [stream |-> applyGroupBy(filtered, a.groupBy.v,
                                        IF a.aggregate.present THEN a.aggregate.v
                                        ELSE <<>>),
                stages |-> <<"source">> \o whereStage \o <<"groupBy">>]
          ELSE IF a.aggregate.present
          THEN [stream |-> applyFullTableAggregation(filtered, a.aggregate.v),
                stages |-> <<"source">> \o whereStage \o <<"fullAggregate">>]
          ELSE [stream |-> filtered, stages |-> <<"source">> \o whereStage]

\* The ASTs handed to buildPipeline: with or without a table, a WHERE, a groupBy
\* and an aggregate list.
BuildASTs ==
    LET kinds == {"count", "sum", "avg", "min", "max", "array"}
        lists == SeqsUpTo({[aggregate |-> kind, field |-> "v", alias |-> kind] :
                              kind \in kinds}, MaxAggregates)
        wheres ==
            {Undefined,
             Simple("v", "=", 1),
             Simple("title", "LIKE", <<"a", Backslash>>),
             Conjunction("AND", <<Simple("v", ">=", 1), Simple("v", "<", 5)>>),
             Conjunction("OR", <<Simple("v", "=", 1), Simple("v", "<=", 2)>>)}
    IN  {[MakeAST(where, None, aggregate, groupBy) EXCEPT !.table = table] :
            table \in {None, Some("issue")},
            where \in wheres,
            aggregate \in {None} \cup {Some(list) : list \in lists},
            groupBy \in {None, Some(<<>>), Some(<<"g">>)}}

\* An AST is about to be built into a pipeline.
NotBuilt(a) ==
    [phase |-> "ast", ast |-> a, stream |-> [kind |-> "none"], stages |-> <<>>,
     rows |-> <<>>, refs |-> [id \in 1..MaxRows |-> 0], members |-> <<>>,
     pushed |-> None, emitted |-> <<>>, view |-> <<>>]

InitPipeline(ASTs) ==
    /\ pipeline \in {NotBuilt(a) : a \in ASTs}
    /\ keys = NoKeys
    /\ sync = NoSync
    /\ like = NoLike
    /\ construction = Built
    /\ parentRows = {}
    /\ childRows = {}
    /\ storage = {}
    /\ output = FALSE
    /\ held = {}
    /\ trip = NotFollowed
    /\ mark = Unmarked
    /\ last = Nothing
    /\ ast = MakeAST(Undefined, None, None, None)
    /\ how = "init"
    /\ norm = ast
    /\ renorm = ast
    /\ prevNorm = ast

\* buildPipeline is called.
BuildPipeline ==
    /\ pipeline.phase = "ast"
    /\ LET built == buildPipeline(pipeline.ast)
       IN  pipeline' = [pipeline EXCEPT
                          !.phase = IF built.stream.kind = "threw" THEN "threw"
                                    ELSE "built",
                          !.stream = built.stream,
                          !.stages = built.stages]
    /\ UNCHANGED <<astVars, joinVars, construction, like, keys, sync>>

SpecBuild == InitPipeline(BuildASTs) /\ [][BuildPipeline]_vars

(***************************************************************************)
(* A built pipeline at work: the source pushes the adds and removes of its  *)
(* rows through the operators, and the subscriber keeps what comes out.     *)
(***************************************************************************)
\* The rows the source of the AST may hold: columns a and b for the filters, or
\* columns g and v for the groups.
SourceRows(a) ==
    IF a.groupBy.present
    THEN {[id |-> id, g |-> g, v |-> v] :
             id \in 1..MaxRows, g \in {"a", "b"}, v \in ColumnValues}
    ELSE {[id |-> id, a |-> x, b |-> y] : id \in 1..MaxRows, x \in {1, 2}, y \in {1, 2}}

RECURSIVE flow(_, _, _)
\* What a change that enters the stream at its source makes the stream put out,
\* and the reference counts of its Distinct afterwards.  Filter passes the change
\* iff the predicate holds of its row; Concat puts out what its inputs put out, in
\* input order; Distinct counts the adds less the removes of each primary key, and
\* passes the add that makes the count one and the remove that makes it zero.
flow(stream, change, refs) ==
    CASE stream.kind = "source" -> [out |-> <<change>>, refs |-> refs]
      [] stream.kind = "filter" ->
           LET in == flow(stream.input, change, refs)
               passes(c) ==
                   getValueFromEntity(c.row, stream.qualifiedColumn) \in stream.accepts
           IN  [out |-> SelectSeq(in.out, passes), refs |-> in.refs]
      [] stream.kind = "concat" ->
           [out |-> FlatSeq([i \in DOMAIN stream.inputs |->
                                flow(stream.inputs[i], change, refs).out]),
            refs |-> refs]
      [] stream.kind = "distinct" ->
           LET in == flow(stream.input, change, refs).out
               RECURSIVE from(_, _, _)
               from(i, count, out) ==
                   IF i > Len(in) THEN [out |-> out, refs |-> count]
                   ELSE LET id == in[i].row.id
                            now == IF in[i].type = "add" THEN count[id] + 1
                                   ELSE count[id] - 1
                            passed == \/ in[i].type = "add" /\ now = 1
                                      \/ in[i].type = "remove" /\ now = 0
                        IN  from(i + 1, [count EXCEPT ![id] = now],
                                 IF passed THEN Append(out, in[i]) ELSE out)
           IN  from(1, refs, <<>>)

\* The rows of a sequence after the changes: an add appends its row, a remove
\* takes out the first occurrence of its row.
rowsAfter(rows, changes) ==
    LET without(seq, row) ==
            LET at == CHOOSE i \in DOMAIN seq :
                         seq[i] = row /\ \A j \in 1..(i - 1) : seq[j] # row
            IN  IF \E i \in DOMAIN seq : seq[i] = row
                THEN SubSeq(seq, 1, at - 1) \o SubSeq(seq, at + 1, Len(seq))
                ELSE seq
        RECURSIVE from(_, _)
        from(i, seq) ==
            IF i > Len(changes) THEN seq
            ELSE from(i + 1, IF changes[i].type = "add" THEN Append(seq, changes[i].row)
                             ELSE without(seq, changes[i].row))
    IN  from(1, rows)

\* makeKeyFunction(selectors) applied to x: JSON.stringify of the values of the
\* columns, as code points.
makeKeyFunction(selectors, x) ==
    LET value(column) == getValueFromEntity(x, <<Undefined, column>>)
    IN  <<91>> \o JsonElements([i \in DOMAIN selectors |-> Str(value(selectors[i]))])
        \o <<93>>

\* A callback whose sum leaves out the first value of the group.
reducedSumWithoutFirst(values, aggregations) ==
    LET RECURSIVE sum(_, _)
        sum(i, field) == IF i > Len(values) THEN 0
                         ELSE values[i][field] + sum(i + 1, field)
        RECURSIVE min(_, _, _)
        min(i, field, sofar) ==
            IF i > Len(values) THEN sofar
            ELSE min(i + 1, field,
                     IF ~sofar.present \/ sofar.v > values[i][field]
                     THEN Some(values[i][field]) ELSE sofar)
        RECURSIVE max(_, _, _)
        max(i, field, sofar) ==
            IF i > Len(values) THEN sofar
            ELSE max(i + 1, field,
                     IF ~sofar.present \/ sofar.v < values[i][field]
                     THEN Some(values[i][field]) ELSE sofar)
        of(aggregation) ==
            CASE aggregation.aggregate = "count" -> Len(values)
              [] aggregation.aggregate = "sum" -> sum(2, aggregation.field)
              [] aggregation.aggregate = "avg" ->
                   [sum |-> sum(1, aggregation.field), count |-> Len(values)]
              [] aggregation.aggregate = "min" -> min(1, aggregation.field, None).v
              [] aggregation.aggregate = "max" -> max(1, aggregation.field, None).v
              [] aggregation.aggregate = "array" ->
                   [i \in DOMAIN values |-> values[i][aggregation.field]]
        RECURSIVE from(_, _)
        from(i, ret) ==
            IF i > Len(aggregations) THEN ret
            ELSE from(i + 1, (aggregations[i].alias :> of(aggregations[i])) @@ ret)
    IN  from(1, values[1])

\* A callback whose 'min' compares the wrong way round.
reducedMinAsMax(values, aggregations) ==
    LET RECURSIVE sum(_, _)
        sum(i, field) == IF i > Len(values) THEN 0
                         ELSE values[i][field] + sum(i + 1, field)
        RECURSIVE min(_, _, _)
        min(i, field, sofar) ==
            IF i > Len(values) THEN sofar
            ELSE min(i + 1, field,
                     IF ~sofar.present \/ sofar.v < values[i][field]
                     THEN Some(values[i][field]) ELSE sofar)
        RECURSIVE max(_, _, _)
        max(i, field, sofar) ==
            IF i > Len(values) THEN sofar
            ELSE max(i + 1, field,
                     IF ~sofar.present \/ sofar.v < values[i][field]
                     THEN Some(values[i][field]) ELSE sofar)
        of(aggregation) ==
            CASE aggregation.aggregate = "count" -> Len(values)
              [] aggregation.aggregate = "sum" -> sum(1, aggregation.field)
              [] aggregation.aggregate = "avg" ->
                   [sum |-> sum(1, aggregation.field), count |-> Len(values)]
              [] aggregation.aggregate = "min" -> min(1, aggregation.field, None).v
              [] aggregation.aggregate = "max" -> max(1, aggregation.field, None).v
              [] aggregation.aggregate = "array" ->
                   [i \in DOMAIN values |-> values[i][aggregation.field]]
        RECURSIVE from(_, _)
        from(i, ret) ==
            IF i > Len(aggregations) THEN ret
            ELSE from(i + 1, (aggregations[i].alias :> of(aggregations[i])) @@ ret)
    IN  from(1, values[1])

\* A callback that keeps a column of the first value that an alias names.
reducedKeepingColumns(values, aggregations) ==
    LET RECURSIVE sum(_, _)
        sum(i, field) == IF i > Len(values) THEN 0
                         ELSE values[i][field] + sum(i + 1, field)
        RECURSIVE min(_, _, _)
        min(i, field, sofar) ==
            IF i > Len(values) THEN sofar
            ELSE min(i + 1, field,
                     IF ~sofar.present \/ sofar.v > values[i][field]
                     THEN Some(values[i][field]) ELSE sofar)
        RECURSIVE max(_, _, _)
        max(i, field, sofar) ==
            IF i > Len(values) THEN sofar
            ELSE max(i + 1, field,
                     IF ~sofar.present \/ sofar.v < values[i][field]
                     THEN Some(values[i][field]) ELSE sofar)
        of(aggregation) ==
            CASE aggregation.aggregate = "count" -> Len(values)
              [] aggregation.aggregate = "sum" -> sum(1, aggregation.field)
              [] aggregation.aggregate = "avg" ->
                   [sum |-> sum(1, aggregation.field), count |-> Len(values)]
              [] aggregation.aggregate = "min" -> min(1, aggregation.field, None).v
              [] aggregation.aggregate = "max" -> max(1, aggregation.field, None).v
              [] aggregation.aggregate = "array" ->
                   [i \in DOMAIN values |-> values[i][aggregation.field]]
        RECURSIVE from(_, _)
        from(i, ret) ==
            IF i > Len(aggregations) THEN ret
            ELSE from(i + 1, ret @@ (aggregations[i].alias :> of(aggregations[i])))
    IN  from(1, values[1])

\* The callback applyGroupBy hands to stream.reduce: the first value of the group
\* with one more column an aggregation (avg as the two numbers it divides).
reduced(values, aggregations) ==
    LET RECURSIVE sum(_, _)
        sum(i, field) == IF i > Len(values) THEN 0
                         ELSE values[i][field] + sum(i + 1, field)
        RECURSIVE min(_, _, _)
        min(i, field, sofar) ==
            IF i > Len(values) THEN sofar
            ELSE min(i + 1, field,
                     IF ~sofar.present \/ sofar.v > values[i][field]
                     THEN Some(values[i][field]) ELSE sofar)
        RECURSIVE max(_, _, _)
        max(i, field, sofar) ==
            IF i > Len(values) THEN sofar
            ELSE max(i + 1, field,
                     IF ~sofar.present \/ sofar.v < values[i][field]
                     THEN Some(values[i][field]) ELSE sofar)
        of(aggregation) ==
            CASE aggregation.aggregate = "count" -> Len(values)
              [] aggregation.aggregate = "sum" -> sum(1, aggregation.field)
              [] aggregation.aggregate = "avg" ->
                   [sum |-> sum(1, aggregation.field), count |-> Len(values)]
              [] aggregation.aggregate = "min" -> min(1, aggregation.field, None).v
              [] aggregation.aggregate = "max" -> max(1, aggregation.field, None).v
              [] aggregation.aggregate = "array" ->
                   [i \in DOMAIN values |-> values[i][aggregation.field]]
        RECURSIVE from(_, _)
        from(i, ret) ==
            IF i > Len(aggregations) THEN ret
            ELSE from(i + 1, (aggregations[i].alias :> of(aggregations[i])) @@ ret)
    IN  from(1, values[1])

\* What stream.reduce puts out for its members: a row a group, in the order the
\* groups came to be; the members of a group are the rows with its key, in the
\* order they were added.
reduce(stream, members) ==
    LET key(x) == makeKeyFunction(stream.columns, x)
        first == SelectSeq([i \in DOMAIN members |->
                               [row |-> members[i],
                                new |-> \A j \in 1..(i - 1) : key(members[j]) # key(members[i])]],
                           LAMBDA m : m.new)
        group(k) == SelectSeq(members, LAMBDA x : key(x) = k)
    IN  [i \in DOMAIN first |-> reduced(group(key(first[i].row)), stream.aggregations)]

\* The source pushes a change through the built pipeline.
Push(change) ==
    /\ pipeline.phase = "built"
    /\ LET grouping == pipeline.stream.kind = "reduce"
           result == flow(IF grouping THEN pipeline.stream.input ELSE pipeline.stream,
                          change, pipeline.refs)
           members == IF grouping THEN rowsAfter(pipeline.members, result.out) ELSE <<>>
       IN  pipeline' = [pipeline EXCEPT
                          !.rows = rowsAfter(@, <<change>>),
                          !.refs = result.refs,
                          !.members = members,
                          !.pushed = Some(change),
                          !.emitted = IF grouping THEN <<>> ELSE result.out,
                          !.view = IF grouping THEN reduce(pipeline.stream, members)
                                   ELSE rowsAfter(@, result.out)]
    /\ UNCHANGED <<astVars, joinVars, construction, like, keys, sync>>

\* A row whose primary key the source does not hold is added to the source.
SourceAdd ==
    \E row \in SourceRows(pipeline.ast) :
       /\ \A i \in DOMAIN pipeline.rows : pipeline.rows[i].id # row.id
       /\ Push([type |-> "add", row |-> row])

\* A row of the source is removed from it.
SourceRemove ==
    \E i \in DOMAIN pipeline.rows : Push([type |-> "remove", row |-> pipeline.rows[i]])

\* Pipelines whose WHERE is an OR.
SpecOr ==
    /\ InitPipeline(
          {[MakeAST(where, None, None, None) EXCEPT !.table = Some("issue")] :
              where \in
                {Conjunction("OR", <<Simple("a", "=", 1), Simple("b", "=", 2)>>),
                 Conjunction("OR", <<Simple("a", "=", 1), Simple("b", "=", 2),
                                     Simple("a", "<=", 2)>>),
                 Conjunction("OR", <<Conjunction("AND", <<Simple("a", "=", 1),
                                                          Simple("b", "=", 1)>>),
                                     Simple("b", ">", 1)>>)}})
    /\ [][BuildPipeline \/ SourceAdd \/ SourceRemove]_vars

\* Pipelines that group the rows of the source, by g or all in one group.
SpecGroupBy ==
    /\ InitPipeline(
          {[MakeAST(Undefined, None,
                    Some([i \in 1..6 |->
                            LET kind == <<"count", "sum", "avg", "min", "max", "array">>[i]
                            IN  [aggregate |-> kind, field |-> "v", alias |-> kind]]),
                    Some(groupBy))
              EXCEPT !.table = Some("issue")] : groupBy \in {<<"g">>, <<>>}})
    /\ [][BuildPipeline \/ SourceAdd \/ SourceRemove]_vars

\* Pipelines whose WHERE is an AND: of no condition, one, two in both orders,
\* three, and of conditions that are conjunctions themselves.
SpecAnd ==
    /\ InitPipeline(
          {[MakeAST(where, None, None, None) EXCEPT !.table = Some("issue")] :
              where \in
                {Conjunction("AND", <<>>),
                 Conjunction("AND", <<Simple("a", "=", 1)>>),
                 Conjunction("AND", <<Simple("a", "=", 1), Simple("b", "=", 2)>>),
                 Conjunction("AND", <<Simple("b", "=", 2), Simple("a", "=", 1)>>),
                 Conjunction("AND", <<Simple("a", "<=", 2), Simple("b", ">", 1),
                                      Simple("a", "=", 1)>>),
                 Conjunction("AND", <<Conjunction("OR", <<Simple("a", "=", 1),
                                                          Simple("b", "=", 1)>>),
                                      Simple("b", ">", 1)>>),
                 Conjunction("AND", <<Simple("a", "=", 2),
                                      Conjunction("AND", <<Simple("b", "<=", 2),
                                                           Simple("b", "=", 1)>>)>>)}})
    /\ [][BuildPipeline \/ SourceAdd \/ SourceRemove]_vars

\* Pipelines that group with aliases that name columns of the rows: a column
\* that is not grouped by, the group column, the primary key.
SpecGroupByAlias ==
    /\ InitPipeline(
          {[MakeAST(Undefined, None, Some(grouping.aggregate), Some(grouping.groupBy))
              EXCEPT !.table = Some("issue")] :
              grouping \in
                {[groupBy |-> <<"g">>,
                  aggregate |-> <<[aggregate |-> "count", field |-> "v", alias |-> "v"]>>],
                 [groupBy |-> <<"g">>,
                  aggregate |-> <<[aggregate |-> "sum", field |-> "v", alias |-> "g"],
                                  [aggregate |-> "max", field |-> "v", alias |-> "m"]>>],
                 [groupBy |-> <<>>,
                  aggregate |-> <<[aggregate |-> "min", field |-> "v", alias |-> "id"],
                                  [aggregate |-> "array", field |-> "v", alias |-> "v"]>>]}})
    /\ [][BuildPipeline \/ SourceAdd \/ SourceRemove]_vars

(***************************************************************************)
(* initialSync: the copy of the published tables of the upstream database   *)
(* into the replica.                                                        *)
(***************************************************************************)
\* The most tables the upstream publishes.
MaxTables == 2

\* ALLOWED_SHARD_ID_CHARACTERS: /^[a-z0-9_]+$/ on the characters of a shard ID.
ALLOWED_SHARD_ID_CHARACTERS(id) ==
    /\ id # <<>>
    /\ \A i \in DOMAIN id : id[i] \in {"a", "z", "0", "9", "_"}

ShardIDs == {<<"0">>, <<"a", "_", "9">>, <<>>, <<"A">>, <<"a", "-", "z">>}

\* The tables the upstream may publish: their schema, name, columns and primary key.
PublishedTable(schema, name, columns, key) ==
    [schema |-> schema, name |-> name, columns |-> columns, primaryKey |-> key]

PublishedTables ==
    {PublishedTable("zero", "clients", {"clientID", "lastMutationID"}, <<"clientID">>),
     PublishedTable("public", "issues", {"issueID", "orgID"}, <<"issueID">>),
     PublishedTable("public", "issues", {"issueID", "orgID"}, <<>>),
     PublishedTable("public", "issues", {"issueID", "orgID", "_0_version"}, <<"issueID">>),
     PublishedTable("_zero", "is_not_allowed", {"issueID", "orgID"}, <<"issueID">>)}

\* validatePublications(lc, shardID, published): the error it throws, for the
\* first table it finds fault with, or "none".
validatePublications(tables) ==
    LET fault(table) ==
            CASE table.schema = "_zero" -> "Schema _zero is reserved for internal use"
              [] "_0_version" \in table.columns -> "uses reserved column name _0_version"
              [] table.primaryKey = <<>> -> "does not have a PRIMARY KEY"
              [] OTHER -> "none"
        faulty == {i \in DOMAIN tables : fault(tables[i]) # "none"}
    IN  IF faulty = {} THEN "none"
        ELSE fault(tables[CHOOSE i \in faulty : \A j \in faulty : i <= j])

\* Before initialSync(lc, shard, tx, upstreamURI, syncOptions) is called.
InitSync ==
    /\ sync \in {[pc |-> "start", shardID |-> id, published |-> tables,
                  copies |-> [i \in DOMAIN tables |-> "none"], error |-> "none",
                  upstreamDB |-> "none", replicationSession |-> "none",
                  copiers |-> "none", liteTables |-> FALSE, liteIndices |-> FALSE,
                  initialSchema |-> FALSE, replicationState |-> FALSE,
                  changeLog |-> FALSE, result |-> "running"] :
                    id \in ShardIDs,
                    tables \in SeqsUpTo(PublishedTables, MaxTables) \ {<<>>}}
    /\ keys = NoKeys
    /\ pipeline = NoPipeline
    /\ like = NoLike
    /\ construction = Built
    /\ parentRows = {}
    /\ childRows = {}
    /\ storage = {}
    /\ output = FALSE
    /\ held = {}
    /\ trip = NotFollowed
    /\ mark = Unmarked
    /\ last = Nothing
    /\ ast = MakeAST(Undefined, None, None, None)
    /\ how = "init"
    /\ norm = ast
    /\ renorm = ast
    /\ prevNorm = ast

besidesSync == <<astVars, joinVars, construction, like, pipeline, keys>>

\* The shard ID is checked; then the connection pool and the replication session
\* are made.
Begin ==
    /\ sync.pc = "start"
    /\ sync' = IF ALLOWED_SHARD_ID_CHARACTERS(sync.shardID)
               THEN [sync EXCEPT !.upstreamDB = "open", !.replicationSession = "open",
                                 !.pc = "checkUpstreamConfig"]
               ELSE [sync EXCEPT !.error = "A shard ID may only consist of lower-case letters, numbers, and the underscore character",
                                 !.result = "threw", !.pc = "done"]
    /\ UNCHANGED besidesSync

\* The awaits of the outer try before the workers are started, in order.
SetUpSteps ==
    <<"checkUpstreamConfig", "terminateSubscriber", "ensurePublishedTables",
      "createReplicationSlot">>

\* The awaits before the workers are started, of which a failed one ends the run
\* where it is, without the finally block.
SetUpUpstreamWithoutFinally ==
    \E i \in DOMAIN SetUpSteps, ok \in BOOLEAN :
       /\ sync.pc = SetUpSteps[i]
       /\ sync' = IF ok
                  THEN [sync EXCEPT !.pc = IF i < Len(SetUpSteps) THEN SetUpSteps[i + 1]
                                           ELSE "startTableCopyWorkers"]
                  ELSE [sync EXCEPT !.error = SetUpSteps[i], !.result = "threw",
                                    !.pc = "done"]
       /\ UNCHANGED besidesSync

\* checkUpstreamConfig, the query that terminates the subscriber of the slot,
\* ensurePublishedTables and createReplicationSlot: each is awaited and may throw,
\* which leaves the outer try for its finally block.
SetUpUpstream ==
    \E i \in DOMAIN SetUpSteps, ok \in BOOLEAN :
       /\ sync.pc = SetUpSteps[i]
       /\ sync' = IF ok
                  THEN [sync EXCEPT !.pc = IF i < Len(SetUpSteps) THEN SetUpSteps[i + 1]
                                           ELSE "startTableCopyWorkers"]
                  ELSE [sync EXCEPT !.error = SetUpSteps[i],
                                    !.pc = "endReplicationSession"]
       /\ UNCHANGED besidesSync

\* startTableCopyWorkers: the pool of workers is made and run.
StartTableCopyWorkers ==
    /\ sync.pc = "startTableCopyWorkers"
    /\ sync' = [sync EXCEPT !.copiers = "running", !.pc = "getPublicationInfo"]
    /\ UNCHANGED besidesSync

\* copiers.processReadTask(getPublicationInfo), awaited inside the inner try.
GetPublicationInfo ==
    \E ok \in BOOLEAN :
       /\ sync.pc = "getPublicationInfo"
       /\ sync' = IF ok THEN [sync EXCEPT !.pc = "validatePublications"]
                  ELSE [sync EXCEPT !.error = "getPublicationInfo", !.pc = "setDone"]
       /\ UNCHANGED besidesSync

\* A validation whose error is noted while the run goes on to create the tables.
ValidatePublicationsGoingOn ==
    /\ sync.pc = "validatePublications"
    /\ sync' = [sync EXCEPT !.error = validatePublications(sync.published),
                            !.pc = "createLite"]
    /\ UNCHANGED besidesSync

\* validatePublications(lc, shard.id, published): if it throws, the inner try is
\* left for its finally block.
ValidatePublications ==
    /\ sync.pc = "validatePublications"
    /\ LET error == validatePublications(sync.published)
       IN  sync' = IF error = "none" THEN [sync EXCEPT !.pc = "createLite"]
                   ELSE [sync EXCEPT !.error = error, !.pc = "setDone"]
    /\ UNCHANGED besidesSync

\* createLiteTables and createLiteIndices, either of which may throw; then a copy
\* of each table is handed to the workers.
CreateLite ==
    \E outcome \in {"created", "createLiteTables", "createLiteIndices"} :
       /\ sync.pc = "createLite"
       /\ sync' = CASE outcome = "created" ->
                         [sync EXCEPT !.liteTables = TRUE, !.liteIndices = TRUE,
                                      !.copies = [i \in DOMAIN sync.copies |-> "queued"],
                                      !.pc = "copy"]
                    [] outcome = "createLiteTables" ->
                         [sync EXCEPT !.error = outcome, !.pc = "setDone"]
                    [] outcome = "createLiteIndices" ->
                         [sync EXCEPT !.liteTables = TRUE, !.error = outcome,
                                      !.pc = "setDone"]
       /\ UNCHANGED besidesSync

\* A worker runs the copy of one table, which copies its rows or fails. While
\* Promise.all is awaited, the first failure rejects it and the last success
\* resolves it; the copies still queued then are run for as long as the workers
\* are not done.
Copy ==
    \E i \in DOMAIN sync.copies, ok \in BOOLEAN :
       /\ sync.copies[i] = "queued"
       /\ sync.copiers \in {"running", "setDone"}
       /\ LET copies == [sync.copies EXCEPT ![i] = IF ok THEN "copied" ELSE "failed"]
              settled == sync.pc = "copy"
                         /\ (~ok \/ \A j \in DOMAIN copies : copies[j] = "copied")
          IN  sync' = [sync EXCEPT !.copies = copies,
                                   !.error = IF sync.pc = "copy" /\ ~ok THEN "copy" ELSE @,
                                   !.pc = IF settled THEN "setDone" ELSE @]
       /\ UNCHANGED besidesSync

\* The inner finally block: copiers.setDone().
SetDone ==
    /\ sync.pc = "setDone"
    /\ sync' = [sync EXCEPT !.copiers = "setDone", !.pc = "awaitDone"]
    /\ UNCHANGED besidesSync

\* The inner finally block: await copiers.done(), which resolves or rejects when
\* the workers have ended; after it the error of the try block, or its own,
\* leaves the outer try.
AwaitDone ==
    \E ok \in BOOLEAN :
       /\ sync.pc = "awaitDone"
       /\ sync.error = "none" => \A i \in DOMAIN sync.copies : sync.copies[i] = "copied"
       /\ sync' = [sync EXCEPT
                      !.copiers = "done",
                      !.error = IF ok THEN @ ELSE "copiers.done",
                      !.pc = IF ok /\ sync.error = "none" THEN "setInitialSchema"
                             ELSE "endReplicationSession"]
       /\ UNCHANGED besidesSync

\* await setInitialSchema(upstreamDB, shard.id, published).
SetInitialSchema ==
    \E ok \in BOOLEAN :
       /\ sync.pc = "setInitialSchema"
       /\ sync' = IF ok THEN [sync EXCEPT !.initialSchema = TRUE, !.pc = "initReplica"]
                  ELSE [sync EXCEPT !.error = "setInitialSchema",
                                    !.pc = "endReplicationSession"]
       /\ UNCHANGED besidesSync

\* initReplicationState and initChangeLog on the replica, either of which may throw.
InitReplica ==
    \E outcome \in {"initialized", "initReplicationState", "initChangeLog"} :
       /\ sync.pc = "initReplica"
       /\ sync' = CASE outcome = "initialized" ->
                         [sync EXCEPT !.replicationState = TRUE, !.changeLog = TRUE,
                                      !.pc = "endReplicationSession"]
                    [] outcome = "initReplicationState" ->
                         [sync EXCEPT !.error = outcome, !.pc = "endReplicationSession"]
                    [] outcome = "initChangeLog" ->
                         [sync EXCEPT !.replicationState = TRUE, !.error = outcome,
                                      !.pc = "endReplicationSession"]
       /\ UNCHANGED besidesSync

\* The outer finally block: await replicationSession.end().
EndReplicationSession ==
    /\ sync.pc = "endReplicationSession"
    /\ sync' = [sync EXCEPT !.replicationSession = "ended", !.pc = "endUpstreamDB"]
    /\ UNCHANGED besidesSync

\* The outer finally block: await upstreamDB.end(); then initialSync returns, or
\* throws the error that left the try block.
EndUpstreamDB ==
    /\ sync.pc = "endUpstreamDB"
    /\ sync' = [sync EXCEPT !.upstreamDB = "ended", !.pc = "done",
                            !.result = IF sync.error = "none" THEN "returned"
                                       ELSE "threw"]
    /\ UNCHANGED besidesSync

NextSync ==
    \/ Begin
    \/ SetUpUpstream
    \/ StartTableCopyWorkers
    \/ GetPublicationInfo
    \/ ValidatePublications
    \/ CreateLite
    \/ Copy
    \/ SetDone
    \/ AwaitDone
    \/ SetInitialSchema
    \/ InitReplica
    \/ EndReplicationSession
    \/ EndUpstreamDB

SpecSync == InitSync /\ [][NextSync]_vars

\* C39: when the validation of the published tables fails, initialSync ends with
\* an error (that of the validation, unless the wait for the workers fails after
\* it), no table and no index of the replica was created,
\* no copy was handed to the workers, and neither the replication state nor the
\* change log was initialized; and the replication state and the change log are
\* initialized only after the copy of every table has ended well, which they are
\* whenever initialSync returns.
C39_ValidationBeforeReplicaWrites ==
    LET invalid == validatePublications(sync.published) # "none"
        validated == sync.pc \notin {"start", "checkUpstreamConfig", "terminateSubscriber",
                                     "ensurePublishedTables", "createReplicationSlot",
                                     "startTableCopyWorkers", "getPublicationInfo",
                                     "validatePublications"}
        reached == validated /\ sync.error # "getPublicationInfo"
                   /\ sync.error \notin {SetUpSteps[i] : i \in DOMAIN SetUpSteps}
                   /\ ALLOWED_SHARD_ID_CHARACTERS(sync.shardID)
    IN  /\ invalid
           => /\ ~sync.liteTables
              /\ ~sync.liteIndices
              /\ \A i \in DOMAIN sync.copies : sync.copies[i] = "none"
              /\ ~sync.replicationState
              /\ ~sync.changeLog
        /\ (invalid /\ reached)
           => /\ sync.error \in {validatePublications(sync.published), "copiers.done"}
              /\ sync.pc = "done" => sync.result = "threw"
        /\ (sync.replicationState \/ sync.changeLog)
           => /\ \A i \in DOMAIN sync.copies : sync.copies[i] = "copied"
              /\ sync.copiers = "done"
        /\ sync.result = "returned" => (sync.replicationState /\ sync.changeLog)

C39_Witness ==
    /\ sync.pc = "done"
    /\ sync.result = "threw"
    /\ Len(sync.published) = 2
    /\ sync.error = "uses reserved column name _0_version"
    /\ sync.published[1].name = "clients"
    /\ sync.copiers = "done"

WhereBuilds == pipeline.ast.where # Simple("title", "LIKE", <<"a", Backslash>>)

\* The aggregations of the list that full-table aggregation does not support.
Unsupported(aggregations) ==
    {i \in DOMAIN aggregations : aggregations[i].aggregate \in {"min", "max", "array"}}

\* C21: for an AST with aggregates and no groupBy, buildPipeline throws at build
\* time iff some aggregation is 'min', 'max' or 'array' (and then names the first
\* of them), and so builds every list made of 'count', 'sum' and 'avg' only; with
\* a groupBy the same aggregations are built.
C21_UnsupportedFullTableAggregate ==
    (pipeline.phase \in {"built", "threw"} /\ pipeline.ast.table.present /\ WhereBuilds
     /\ pipeline.ast.aggregate.present)
        => LET aggregations == pipeline.ast.aggregate.v
               unsupported == Unsupported(aggregations)
               first == CHOOSE i \in unsupported : \A j \in unsupported : i <= j
           IN  IF pipeline.ast.groupBy.present THEN pipeline.phase = "built"
               ELSE IF unsupported = {} THEN pipeline.phase = "built"
               ELSE /\ pipeline.phase = "threw"
                    /\ pipeline.stream.error =
                          aggregations[first].aggregate
                             \o " not yet supported outside of group-by"

C21_Witness ==
    /\ pipeline.phase = "threw"
    /\ pipeline.ast.table.present
    /\ WhereBuilds
    /\ ~pipeline.ast.groupBy.present
    /\ pipeline.ast.aggregate.present
    /\ Len(pipeline.ast.aggregate.v) = 2
    /\ pipeline.ast.aggregate.v[1].aggregate = "count"
    /\ pipeline.ast.aggregate.v[2].aggregate = "array"

RECURSIVE Path(_)
\* The kinds of the operators of a stream from its output down to its source
\* (through the first branch of a concat).
Path(stream) ==
    CASE stream.kind = "source" -> <<"source">>
      [] stream.kind = "concat" -> <<"concat">> \o Path(stream.inputs[1])
      [] OTHER -> <<stream.kind>> \o Path(stream.input)

\* C22: buildPipeline composes the source stream of ast.table, then the WHERE
\* filter tree iff ast.where is present, then GroupBy+Aggregate iff ast.groupBy is
\* present (with ast.aggregate or an empty list), or else FullAggregate iff
\* ast.aggregate is present: never both aggregate stages, neither when both are
\* absent; and it fails with 'Table not specified in the AST' without a table.
C22_StagesInFixedOrder ==
    LET a == pipeline.ast
        whereStage == IF a.where # Undefined THEN <<"where">> ELSE <<>>
        aggregateStage == IF a.groupBy.present THEN <<"groupBy">>
                          ELSE IF a.aggregate.present THEN <<"fullAggregate">>
                          ELSE <<>>
        path == Path(pipeline.stream)
        above == {"reduce", "count", "sum", "avg"}
    IN  /\ (pipeline.phase \in {"built", "threw"} /\ ~a.table.present)
              => /\ pipeline.stream = Threw("Table not specified in the AST")
                 /\ pipeline.stages = <<>>
        /\ (pipeline.phase \in {"built", "threw"} /\ a.table.present /\ WhereBuilds)
              => pipeline.stages = <<"source">> \o whereStage \o aggregateStage
        /\ pipeline.phase = "built"
              => /\ path[Len(path)] = "source"
                 /\ \A i, j \in DOMAIN path :
                       (i < j /\ path[j] \in above) => path[i] \in above
                 /\ ("reduce" \in {path[i] : i \in DOMAIN path}) <=> a.groupBy.present
                 /\ a.groupBy.present
                       => /\ path[1] = "reduce"
                          /\ path[2] \notin above
                          /\ pipeline.stream.columns = a.groupBy.v
                          /\ pipeline.stream.aggregations =
                                IF a.aggregate.present THEN a.aggregate.v ELSE <<>>
                 /\ ~a.groupBy.present
                       => Len(SelectSeq(path, LAMBDA k : k \in above)) =
                             IF a.aggregate.present THEN Len(a.aggregate.v) ELSE 0
                 /\ ("filter" \in {path[i] : i \in DOMAIN path}) <=> a.where # Undefined

C22_Witness ==
    /\ pipeline.phase = "built"
    /\ pipeline.ast.where # Undefined
    /\ pipeline.ast.groupBy.present
    /\ pipeline.ast.aggregate.present
    /\ pipeline.stages = <<"source", "where", "groupBy">>
    /\ Len(pipeline.ast.aggregate.v) = 2

RECURSIVE Satisfies(_, _)
\* Whether a row satisfies a condition of a WHERE.
Satisfies(row, c) ==
    CASE c.type = "conjunction" /\ c.op = "AND" ->
           \A i \in DOMAIN c.conditions : Satisfies(row, c.conditions[i])
      [] c.type = "conjunction" /\ c.op = "OR" ->
           \E i \in DOMAIN c.conditions : Satisfies(row, c.conditions[i])
      [] c.type = "simple" /\ c.op = "=" -> row[c.field] = c.value.value
      [] c.type = "simple" /\ c.op = "<=" -> row[c.field] <= c.value.value
      [] c.type = "simple" /\ c.op = ">" -> row[c.field] > c.value.value

\* C23: for a WHERE of the form OR[c1..cn], the pipeline puts out a row iff the
\* row satisfies at least one ci, and puts it out once: the subscriber holds each
\* such row of the source exactly once, the add of such a row comes out as one
\* add and its remove as one remove, however many branches it passes.
C23_OrPutsOutEachRowOnce ==
    (pipeline.phase = "built" /\ pipeline.ast.where # Undefined
     /\ pipeline.ast.where.op = "OR")
        => LET where == pipeline.ast.where
               rows == pipeline.rows
               view == pipeline.view
           IN  /\ \A i, j \in DOMAIN view : view[i] = view[j] => i = j
               /\ {view[i] : i \in DOMAIN view} =
                     {rows[i] : i \in {k \in DOMAIN rows : Satisfies(rows[k], where)}}
               /\ pipeline.pushed.present
                     => pipeline.emitted =
                           IF \E i \in DOMAIN where.conditions :
                                 Satisfies(pipeline.pushed.v.row, where.conditions[i])
                           THEN <<pipeline.pushed.v>> ELSE <<>>

C23_Witness ==
    /\ pipeline.phase = "built"
    /\ pipeline.ast.where # Undefined
    /\ Len(pipeline.ast.where.conditions) = 3
    /\ pipeline.pushed.present
    /\ pipeline.pushed.v = [type |-> "remove", row |-> [id |-> 1, a |-> 1, b |-> 2]]
    /\ pipeline.emitted = <<pipeline.pushed.v>>
    /\ Len(pipeline.view) = 1

\* C32: for a WHERE of the form AND[c1..cn] the pipeline passes a row iff every
\* ci holds of it, the pipeline built from the ci in any other order passes the
\* same rows, and an AND of no condition passes every row.
C32_AndPassesRowsOfEveryCondition ==
    (pipeline.phase = "built" /\ pipeline.ast.where # Undefined
     /\ pipeline.ast.where.op = "AND")
        => LET where == pipeline.ast.where
               rows == pipeline.rows
               view == pipeline.view
               n == Len(where.conditions)
               orders == {p \in [1..n -> 1..n] : \A i, j \in 1..n : p[i] = p[j] => i = j}
               source == [kind |-> "source", table |-> pipeline.ast.table.v]
               passes(p, row) ==
                   flow(applyAnd(source, [i \in 1..n |-> where.conditions[p[i]]]),
                        [type |-> "add", row |-> row],
                        [id \in 1..MaxRows |-> 0]).out # <<>>
           IN  /\ \A i, j \in DOMAIN view : view[i] = view[j] => i = j
               /\ {view[i] : i \in DOMAIN view} =
                     {rows[i] : i \in {k \in DOMAIN rows : Satisfies(rows[k], where)}}
               /\ pipeline.pushed.present
                     => pipeline.emitted =
                           IF \A i \in 1..n :
                                 Satisfies(pipeline.pushed.v.row, where.conditions[i])
                           THEN <<pipeline.pushed.v>> ELSE <<>>
               /\ \A p \in orders : \A row \in SourceRows(pipeline.ast) :
                     passes(p, row) <=> Satisfies(row, where)
               /\ n = 0 => view = rows

C32_Witness ==
    /\ pipeline.phase = "built"
    /\ pipeline.ast.where # Undefined
    /\ Len(pipeline.ast.where.conditions) = 3
    /\ pipeline.pushed.present
    /\ pipeline.pushed.v = [type |-> "add", row |-> [id |-> 2, a |-> 2, b |-> 2]]
    /\ pipeline.emitted = <<>>
    /\ Len(pipeline.view) = 1
    /\ Len(pipeline.rows) = 2

\* The values of the group columns of a row, in declared order.
GroupTuple(row) ==
    [i \in DOMAIN pipeline.ast.groupBy.v |-> row[pipeline.ast.groupBy.v[i]]]

RECURSIVE SumOfV(_)
\* The sum of column v over a set of rows.
SumOfV(rows) ==
    IF rows = {} THEN 0
    ELSE LET row == CHOOSE row \in rows : TRUE IN row.v + SumOfV(rows \ {row})

\* The rows of the source with the group-column values of the given row.
GroupOf(row) ==
    {pipeline.rows[i] :
        i \in {k \in DOMAIN pipeline.rows : GroupTuple(pipeline.rows[k]) = GroupTuple(row)}}

\* The columns g, count and sum of the rows put out.
GroupCountSum ==
    {[g |-> pipeline.view[i].g, count |-> pipeline.view[i].count,
      sum |-> pipeline.view[i].sum] : i \in DOMAIN pipeline.view}

\* C24: with aggregations count and sum(v), after any adds and removes of rows
\* there is one output row for each distinct tuple of group-column values among
\* the rows of the source, and it carries the number of the group's members as
\* count and the sum of v over them as sum; {g:a,v:1}, {g:a,v:2}, {g:b,v:5} give
\* {g:a,count:2,sum:3} and {g:b,count:1,sum:5}, and without {g:a,v:1} group a
\* has {count:1,sum:2}.
C24_GroupCountAndSum ==
    (pipeline.phase = "built" /\ pipeline.stream.kind = "reduce")
        => LET rows == pipeline.rows
               view == pipeline.view
           IN  /\ \A i, j \in DOMAIN view :
                     GroupTuple(view[i]) = GroupTuple(view[j]) => i = j
               /\ {GroupTuple(view[i]) : i \in DOMAIN view} =
                     {GroupTuple(rows[i]) : i \in DOMAIN rows}
               /\ \A i \in DOMAIN view :
                     /\ view[i].count = Cardinality(GroupOf(view[i]))
                     /\ view[i].sum = SumOfV(GroupOf(view[i]))
               /\ (pipeline.ast.groupBy.v = <<"g">>
                   /\ rows = <<[id |-> 1, g |-> "a", v |-> 1], [id |-> 2, g |-> "a", v |-> 2],
                               [id |-> 3, g |-> "b", v |-> 5]>>)
                     => GroupCountSum = {[g |-> "a", count |-> 2, sum |-> 3],
                                         [g |-> "b", count |-> 1, sum |-> 5]}
               /\ (pipeline.ast.groupBy.v = <<"g">>
                   /\ rows = <<[id |-> 2, g |-> "a", v |-> 2], [id |-> 3, g |-> "b", v |-> 5]>>)
                     => GroupCountSum = {[g |-> "a", count |-> 1, sum |-> 2],
                                         [g |-> "b", count |-> 1, sum |-> 5]}

C24_Witness ==
    /\ pipeline.phase = "built"
    /\ pipeline.stream.kind = "reduce"
    /\ pipeline.ast.groupBy.v = <<"g">>
    /\ pipeline.rows = <<[id |-> 2, g |-> "a", v |-> 2], [id |-> 3, g |-> "b", v |-> 5]>>
    /\ pipeline.pushed = Some([type |-> "remove", row |-> [id |-> 1, g |-> "a", v |-> 1]])
    /\ GroupCountSum = {[g |-> "a", count |-> 1, sum |-> 2],
                        [g |-> "b", count |-> 1, sum |-> 5]}

\* C25: in GroupBy, 'min' yields the least and 'max' the greatest value of the
\* field among the current members of the group (of equal values the one seen
\* first), and 'array' yields the members' values in the order the members were
\* added, one element a member.
C25_GroupMinMaxArray ==
    (pipeline.phase = "built" /\ pipeline.stream.kind = "reduce")
        => \A i \in DOMAIN pipeline.view :
              LET out == pipeline.view[i]
                  members == SelectSeq(pipeline.rows,
                                       LAMBDA row : GroupTuple(row) = GroupTuple(out))
                  values == {members[k].v : k \in DOMAIN members}
              IN  /\ out.min \in values
                  /\ \A v \in values : out.min <= v
                  /\ out.max \in values
                  /\ \A v \in values : out.max >= v
                  /\ out.array = [k \in DOMAIN members |-> members[k].v]

C25_Witness ==
    /\ pipeline.phase = "built"
    /\ pipeline.stream.kind = "reduce"
    /\ pipeline.ast.groupBy.v = <<"g">>
    /\ Len(pipeline.view) = 1
    /\ pipeline.view[1].array = <<5, 1, 5>>
    /\ pipeline.view[1].min = 1
    /\ pipeline.view[1].max = 5

\* C34: each row a group-by puts out is the first member of its group merged
\* with {alias: value}: a column of the first member that no alias names is kept
\* as it is, each alias holds the value of its aggregate over the members, and an
\* alias that is the name of a column of the row takes the place of that column.
C34_GroupRowIsFirstMemberWithAliases ==
    (pipeline.phase = "built" /\ pipeline.stream.kind = "reduce")
        => LET rows == pipeline.rows
               aggregations == pipeline.ast.aggregate.v
               aliases == {aggregations[k].alias : k \in DOMAIN aggregations}
               firsts == SelectSeq([k \in DOMAIN rows |->
                                       [row |-> rows[k],
                                        new |-> \A j \in 1..(k - 1) :
                                                   GroupTuple(rows[j]) # GroupTuple(rows[k])]],
                                   LAMBDA m : m.new)
               valueOf(aggregation, members) ==
                   LET values == {members[k].v : k \in DOMAIN members}
                   IN  CASE aggregation.aggregate = "count" -> Len(members)
                         [] aggregation.aggregate = "sum" ->
                              SumOfV({members[k] : k \in DOMAIN members})
                         [] aggregation.aggregate = "min" ->
                              CHOOSE v \in values : \A w \in values : v <= w
                         [] aggregation.aggregate = "max" ->
                              CHOOSE v \in values : \A w \in values : v >= w
                         [] aggregation.aggregate = "array" ->
                              [k \in DOMAIN members |-> members[k].v]
           IN  /\ Len(pipeline.view) = Len(firsts)
               /\ \A i \in DOMAIN firsts :
                     LET first == firsts[i].row
                         out == pipeline.view[i]
                         members == SelectSeq(rows, LAMBDA row :
                                                 GroupTuple(row) = GroupTuple(first))
                     IN  /\ DOMAIN out = DOMAIN first \cup aliases
                         /\ \A column \in DOMAIN first \ aliases :
                               out[column] = first[column]
                         /\ \A k \in DOMAIN aggregations :
                               out[aggregations[k].alias] =
                                   valueOf(aggregations[k], members)

C34_Witness ==
    /\ pipeline.phase = "built"
    /\ pipeline.stream.kind = "reduce"
    /\ pipeline.ast.groupBy.v = <<"g">>
    /\ pipeline.rows = <<[id |-> 2, g |-> "a", v |-> 2], [id |-> 1, g |-> "a", v |-> 5]>>
    /\ pipeline.view = <<[id |-> 2, g |-> 7, v |-> 2, m |-> 5]>>

\* C35: after any fetches, cleanups and parent add and remove pushes the storage
\* holds exactly one entry for each (parentKey value, primary key) of the parents
\* the Join put out through fetch or 'add' and has not processed through cleanup
\* or 'remove' since, and no other entry.
C35_StorageIsTheHeldParents ==
    LET entry(row) == createPrimaryKeySetStorageKey(
                          <<normalizeUndefined(row[parentKey])>>
                              \o [i \in 1..Len(primaryKey) |->
                                     normalizeUndefined(row[primaryKey[i]])])
    IN  /\ storage = {entry(row) : row \in held}
        /\ Cardinality(storage) = Cardinality(held)

C35_Witness ==
    /\ last.op = "cleanup"
    /\ last.complete
    /\ Len(last.events) = 1
    /\ Cardinality(held) = 1
    /\ Cardinality(parentRows) = 2
    /\ \A row \in parentRows : row[parentKey] = Str("u1")
    /\ storage # {}

\* C36: a push from the child input, be it an add, a remove or a child change,
\* leaves the storage of the Join as it was: no entry is set or deleted, no
\* parent node is processed and the child input is not pulled.
C36_ChildPushLeavesStorage ==
    [][last'.op = "pushChild"
          => /\ storage' = storage
             /\ held' = held
             /\ last'.events = <<>>
             /\ parentRows' = parentRows]_vars

C36_Witness ==
    /\ last.op = "pushChild"
    /\ last.change.v.type = "remove"
    /\ Len(last.emitted) = 2
    /\ Cardinality(storage) = 1
    /\ childRows = {}

\* C38: the Join puts changes out within the push that causes them and in the
\* order of the pushes: a push from the parent input puts out exactly one change,
\* of the type pushed, before it returns; every change put out during a push is
\* caused by that push, none by a push before it; and nothing is put out between
\* the pushes.
C38_PushesPutOutInOrder ==
    [][/\ last'.op = "pushParent"
          => /\ Len(last'.emitted) = 1
             /\ last'.emitted[1].type = last'.change.v.type
             /\ last'.emitted[1].type = "child" => last'.emitted[1] = last'.change.v
             /\ last'.emitted[1].type # "child"
                   => last'.emitted[1].node.row = last'.change.v.node.row
       /\ last'.op = "pushChild"
          => \A i \in DOMAIN last'.emitted :
                /\ last'.emitted[i].type = "child"
                /\ last'.emitted[i].child.change = last'.change.v
       /\ last'.op \notin {"pushParent", "pushChild"} => last'.emitted = <<>>]_vars

C38_Witness ==
    /\ last.op = "pushParent"
    /\ last.change.v.type = "remove"
    /\ last.emitted[1].type = "remove"
    /\ Cardinality(parentRows) = 1
    /\ Cardinality(childRows) = 1
    /\ storage # {}

\* C26: a push from the parent or the child input that arrives while no output
\* is set fails with the assertion 'Output not set', emits nothing and leaves the
\* storage of the Join as it was.
C26_NoPushWithoutOutput ==
    [][(~output /\ last'.op \in {"pushParent", "pushChild"})
          => /\ last'.threw
             /\ last'.emitted = <<>>
             /\ storage' = storage]_vars

C26_Witness ==
    /\ ~output
    /\ last.op = "pushChild"
    /\ last.threw
    /\ last.change.v.type = "remove"
    /\ storage # {}

(***************************************************************************)
(* Join.destroy and Join.getSchema.                                         *)
(***************************************************************************)
\* The schemas the parent input and the child input may return: a table, its
\* primary key, and relationships named like the Join's or otherwise.
Schemas(tableName) ==
    LET Leaf(name) == [tableName |-> name, primaryKey |-> <<"id">>,
                       relationships |-> NoRelationships]
    IN  {[tableName |-> tableName, primaryKey |-> <<"id">>, relationships |-> rels] :
            rels \in {NoRelationships,
                      "labels" :> Leaf("label"),
                      relationshipName :> Leaf("old"),
                      (relationshipName :> Leaf("old")) @@ ("labels" :> Leaf("label"))}}

\* A getSchema in which the relationships of the parent come last in the spread.
getSchemaParentLast(parentSchema, childSchema) ==
    [parentSchema EXCEPT
        !.relationships = parentSchema.relationships @@ (relationshipName :> childSchema)]

\* Join.getSchema, given what the getSchema of the inputs return.
getSchema(parentSchema, childSchema) ==
    [parentSchema EXCEPT
        !.relationships = (relationshipName :> childSchema) @@ parentSchema.relationships]

\* getSchema is called: `last` holds the schemas of the inputs as its change and
\* the schema returned as what it emitted.
JoinGetSchema ==
    \E parentSchema \in Schemas("issue"), childSchema \in Schemas("comment") :
        /\ last' = [Nothing EXCEPT
                      !.op = "getSchema",
                      !.change = Some([parent |-> parentSchema, child |-> childSchema]),
                      !.emitted = <<getSchema(parentSchema, childSchema)>>]
        /\ UNCHANGED <<parentRows, childRows, storage, held, output, trip, mark,
                       besidesJoin>>

\* destroy is called: `last` holds the calls made on the inputs as its events.
JoinDestroy ==
    /\ last' = [Nothing EXCEPT
                  !.op = "destroy",
                  !.events = <<[input |-> "parent", method |-> "destroy"],
                               [input |-> "child", method |-> "destroy"]>>]
    /\ UNCHANGED <<parentRows, childRows, storage, held, output, trip, mark, besidesJoin>>

\* A Join that is fetched from, asked for its schema, and destroyed.
SpecTeardown == InitJoin /\ [][JoinFetch \/ JoinGetSchema \/ JoinDestroy]_vars

\* C27: Join.destroy calls destroy on the parent input and on the child input,
\* once each, and the storage of the Join is discarded: no entry of it remains
\* after destroy.
C27_DestroyDiscardsStorage ==
    last.op = "destroy"
        => /\ Len(SelectSeq(last.events, LAMBDA e : e.input = "parent")) = 1
           /\ Len(SelectSeq(last.events, LAMBDA e : e.input = "child")) = 1
           /\ \A i \in DOMAIN last.events : last.events[i].method = "destroy"
           /\ storage = {}

\* C28: Join.getSchema returns the schema of the parent with
\* relationships[relationshipName] set to the schema of the child: every other
\* field and every other relationship of the parent's schema is as it was, and a
\* relationship of the parent named relationshipName gives way to the child's.
C28_SchemaIsParentsWithChild ==
    last.op = "getSchema"
        => LET parentSchema == last.change.v.parent
               childSchema == last.change.v.child
               schema == last.emitted[1]
           IN  /\ schema.tableName = parentSchema.tableName
               /\ schema.primaryKey = parentSchema.primaryKey
               /\ DOMAIN schema = DOMAIN parentSchema
               /\ DOMAIN schema.relationships =
                     DOMAIN parentSchema.relationships \cup {relationshipName}
               /\ schema.relationships[relationshipName] = childSchema
               /\ \A name \in DOMAIN parentSchema.relationships \ {relationshipName} :
                     schema.relationships[name] = parentSchema.relationships[name]

C28_Witness ==
    /\ last.op = "getSchema"
    /\ DOMAIN last.change.v.parent.relationships = {relationshipName, "labels"}
    /\ last.change.v.child.relationships # NoRelationships
    /\ last.emitted[1].relationships[relationshipName] = last.change.v.child
    /\ storage # {}

\* C29: normalizeAST leaves orderBy exactly as given, the same elements in the
\* same order, and leaves table, alias and limit as given; select, aggregate,
\* groupBy and where alone may come out reordered or restructured.
C29_OrderByTableAliasLimitKept ==
    /\ norm.orderBy = ast.orderBy
    /\ norm.table = ast.table
    /\ norm.alias = ast.alias
    /\ norm.limit = ast.limit
    /\ DOMAIN norm = DOMAIN ast

C29_Witness ==
    /\ ast.orderBy = <<<<"b", "a">>, "desc">>
    /\ ast.table = "comment"
    /\ ast.alias = Some("i")
    /\ ast.limit = Some(10)
    /\ norm.where # ast.where
    /\ norm.groupBy # ast.groupBy
    /\ how = "comm"

\* C30: for a push from the parent input, the Join emits an 'add' whose node was
\* processed in fetch mode (its storage entry is set, the child is pulled with
\* fetch), a 'remove' whose node was processed in cleanup mode (its storage entry
\* is deleted), and a 'child' change as it came, the storage neither read nor
\* written and the child not pulled.
C30_ParentPushModes ==
    [][last'.op = "pushParent"
          => LET change == last'.change.v
                 entry(row) == createPrimaryKeySetStorageKey(
                                   <<normalizeUndefined(row[parentKey]), row.id>>)
             IN  CASE change.type = "add" ->
                        /\ Len(last'.emitted) = 1
                        /\ last'.emitted[1].type = "add"
                        /\ last'.emitted[1].node.row = change.node.row
                        /\ last'.emitted[1].node.relationships[relationshipName] =
                              SourceFetch(childRows',
                                          Constrained(childKey, change.node.row[parentKey]))
                        /\ Len(last'.events) = 1
                        /\ last'.events[1].mode = "fetch"
                        /\ last'.events[1].method = "fetch"
                        /\ storage' = storage \cup {entry(change.node.row)}
                   [] change.type = "remove" ->
                        /\ Len(last'.emitted) = 1
                        /\ last'.emitted[1].type = "remove"
                        /\ last'.emitted[1].node.row = change.node.row
                        /\ Len(last'.events) = 1
                        /\ last'.events[1].mode = "cleanup"
                        /\ storage' = storage \ {entry(change.node.row)}
                   [] OTHER ->
                        /\ last'.emitted = <<change>>
                        /\ last'.events = <<>>
                        /\ storage' = storage]_vars

C30_Witness ==
    /\ last.op = "pushParent"
    /\ last.change.v.type = "remove"
    /\ last.events[1].mode = "cleanup"
    /\ last.events[1].method = "cleanup"
    /\ storage = {}
    /\ parentRows # {}
    /\ childRows # {}

====
